---- MODULE Spec2Model ----
(***************************************************************************)
(* Codopraxis: the question compiler and runner cache (codequestions) and  *)
(* the sandboxed submission pipeline (sandbox).                            *)
(*                                                                         *)
(* Part A models one CodeQuestion row with its CodeTestCase rows, the      *)
(* operations that write compiled_spec / compiled_version /                *)
(* compiled_runner_cache, and the post_save / post_delete receivers of     *)
(* codequestions/signals.py, which run inside every Model.save().          *)
(*                                                                         *)
(* Python dicts are records that carry every key the code reads; a key     *)
(* that is absent (dict.get gives None) holds the sentinel of its type:    *)
(* None for strings, NoInt for numbers, <<>> for lists.                    *)
(***************************************************************************)
EXTENDS FiniteSets, Integers, Sequences, TLC

None == "None"
NoInt == 0

(***************************************************************************)
(* Bounds of the model.                                                    *)
(***************************************************************************)
MaxVersion == 2
MaxCases == 2

CaseIds == 1..MaxCases
\* timeout_seconds an authoring request carries
Timeouts == {1}
Languages == {"python", "java"}
GeneratorVersions == {"1", "2"}

(***************************************************************************)
(* Payloads of CodeTestCase.data: a case with stdin and stdout, a case     *)
(* without an input key, and a case without an output.                     *)
(***************************************************************************)
CaseA == [input |-> "2\n3\n", output |-> "5\n"]
CaseB == [input |-> None,     output |-> "ok\n"]
CaseNoOutput == [input |-> "", output |-> None]

Absent == [order |-> 0, is_active |-> FALSE, data |-> [input |-> None, output |-> None], exists |-> FALSE]

\* the rows a CodeTestCase.save() writes in this model
CaseRows ==
    { [order |-> 1, is_active |-> TRUE,  data |-> CaseA,        exists |-> TRUE],
      [order |-> 0, is_active |-> TRUE,  data |-> CaseB,        exists |-> TRUE],
      [order |-> 0, is_active |-> TRUE,  data |-> CaseNoOutput, exists |-> TRUE],
      [order |-> 1, is_active |-> FALSE, data |-> CaseB,        exists |-> TRUE] }

VARIABLES
    test_style,               \* CodeQuestion.test_style
    timeout_seconds,          \* CodeQuestion.timeout_seconds
    overall_timeout_seconds,  \* CodeQuestion.overall_timeout_seconds (NoInt: None)
    test_cases,               \* CodeTestCase rows of the question, by id
    compiled_spec,            \* CodeQuestion.compiled_spec
    compiled_version,         \* CodeQuestion.compiled_version
    compiled_runner_cache,    \* CodeQuestion.compiled_runner_cache, by language
    ret                       \* outcome of the last operation

qvars == <<test_style, timeout_seconds, overall_timeout_seconds, test_cases,
           compiled_spec, compiled_version, compiled_runner_cache, ret>>

\* the submission in flight (Part B)
VARIABLES
    pc,          \* position of the handler
    endpoint,    \* "run_code", "submit_code" or "run_submission"
    cq_id,       \* the request names a code_question_id
    run_spec,    \* compiled_specs handed to run_submission
    workspace,   \* the directory of tempfile.mkdtemp / TemporaryDirectory
    container,   \* the container started by docker run
    report,      \* report.xml in the workspace
    proc,        \* how subprocess.run ended, with returncode and stdout
    norm,        \* result of _normalize_junit
    result,      \* the verdict after reclassification
    response,    \* what the handler returns, or the exception that escapes
    stored,      \* the Submission row created by this run
    payload      \* last _student_payload_from_submission

svars == <<pc, endpoint, cq_id, run_spec, workspace, container, report, proc,
           norm, result, response, stored, payload>>

\* the request being resolved and the container launch built for it (Part C)
VARIABLES
    rpc,            \* position: "idle", "limits", "docker" or "returned"
    request,        \* endpoint, declared tests and the selectors of the request
    resolution,     \* the runtime chosen, or the error returned
    limits,         \* timeout_seconds and memory_limit_mb after resolution
    compiled_specs, \* the spec handed to run_submission
    docker_cmd,     \* the docker run command line, by constraint
    host_timeout    \* timeout= of subprocess.run

lvars == <<rpc, request, resolution, limits, compiled_specs, docker_cmd, host_timeout>>

\* one call of compile_yaml_to_spec (Part D)
VARIABLES
    raw,        \* the mapping parsed from the YAML text
    compiled    \* the compiled spec returned, or the SpecError raised

yvars == <<raw, compiled>>

\* requests that run at the same time on one question (Part E)
VARIABLES
    db_row,     \* the CodeQuestion row in the database
    case_rows,  \* the CodeTestCase rows of the question in the database
    registry,   \* generators._registry
    request_of, \* per request: its position, its operation and its instance
    assigned,   \* every (compiled_version, compiled_spec) a compile has stored
    changes     \* number of compiles that stored another spec than the row had

cvars == <<db_row, case_rows, registry, request_of, assigned, changes>>

(***************************************************************************)
(* compiler.py                                                             *)
(***************************************************************************)
SANDBOX_DEFAULTS ==
    [ timeout_seconds |-> 2,
      overall_timeout_seconds |-> NoInt,
      memory_limit_mb |-> 128,
      cpus |-> 1,
      docker_image |-> "python:3.12-slim",
      stop_on_timeout |-> TRUE ]

\* CodeQuestion.memory_limit_mb: the model field's default
memory_limit_mb == 128

\* the empty dict / None stored before the first compile
EmptySpec ==
    [ test_style |-> None, type |-> None, test_cases |-> <<>>, tests |-> <<>>,
      timeout_seconds |-> NoInt, overall_timeout_seconds |-> NoInt,
      memory_limit_mb |-> NoInt, cpus |-> NoInt, docker_image |-> None,
      stop_on_timeout |-> FALSE ]

\* normalize_script raises ValueError when the case has no output
normalize_script_raises(case) == case.output = None

normalize_script(case) ==
    [ input  |-> IF case.input = None THEN "" ELSE case.input,
      output |-> case.output ]

normalize_function(case) ==
    [ args     |-> <<>>,
      output   |-> IF case.output = None THEN "" ELSE case.output,
      expected |-> None ]

normalize_oop(case) ==
    [ setup    |-> <<>>,
      calls    |-> <<>>,
      expected |-> None,
      output   |-> IF case.output = None THEN "" ELSE case.output ]

normalize_case_raises(style, data) ==
    \/ style = "script" /\ normalize_script_raises(data)
    \/ style \notin {"script", "function", "oop"}

normalize_case(style, data) ==
    IF style = "script" THEN normalize_script(data)
    ELSE IF style = "function" THEN normalize_function(data)
    ELSE normalize_oop(data)

\* question.test_cases.filter(is_active=True).order_by("order", "id")
ActiveIds(tc) == { i \in CaseIds : tc[i].exists /\ tc[i].is_active }

Before(tc, i, j) ==
    \/ tc[i].order < tc[j].order
    \/ tc[i].order = tc[j].order /\ i < j

RECURSIVE OrderBy(_, _)
OrderBy(tc, S) ==
    IF S = {} THEN <<>>
    ELSE LET m == CHOOSE i \in S : \A j \in S \ {i} : Before(tc, i, j)
         IN  <<m>> \o OrderBy(tc, S \ {m})

cases_qs(tc) == OrderBy(tc, ActiveIds(tc))

\* compile_question raises ValueError: a case that does not normalize, or an
\* unknown test_style
compile_question_raises(style, tc) ==
    \/ \E i \in ActiveIds(tc) : normalize_case_raises(style, tc[i].data)
    \/ style \notin {"script", "function", "oop"}

\* a compile in which the 2 x timeout default replaces an explicit overall
compile_question_spec_doubled(style, tc, model_timeout, model_overall) ==
    LET ids == cases_qs(tc)
        normalized_cases == [ k \in 1..Len(ids) |-> normalize_case(style, tc[ids[k]].data) ]
        t == IF model_timeout # NoInt THEN model_timeout ELSE SANDBOX_DEFAULTS.timeout_seconds
    IN  [ test_style |-> style, type |-> None,
          test_cases |-> normalized_cases, tests |-> <<>>,
          timeout_seconds |-> t,
          overall_timeout_seconds |-> t * 2,
          memory_limit_mb |-> memory_limit_mb,
          cpus |-> SANDBOX_DEFAULTS.cpus,
          docker_image |-> SANDBOX_DEFAULTS.docker_image,
          stop_on_timeout |-> SANDBOX_DEFAULTS.stop_on_timeout ]
\* the spec dict compile_question builds (lines 103-142)
compile_question_spec(style, tc, model_timeout, model_overall) ==
    LET ids == cases_qs(tc)
        normalized_cases == [ k \in 1..Len(ids) |-> normalize_case(style, tc[ids[k]].data) ]
        t == IF model_timeout # NoInt THEN model_timeout ELSE SANDBOX_DEFAULTS.timeout_seconds
        o == IF model_overall # NoInt THEN model_overall ELSE t * 2
    IN  [ test_style |-> style, type |-> None,
          test_cases |-> normalized_cases, tests |-> <<>>,
          timeout_seconds |-> t,
          overall_timeout_seconds |-> o,
          memory_limit_mb |-> memory_limit_mb,
          cpus |-> SANDBOX_DEFAULTS.cpus,
          docker_image |-> SANDBOX_DEFAULTS.docker_image,
          stop_on_timeout |-> SANDBOX_DEFAULTS.stop_on_timeout ]

\* compiled_version after compile_question (line 147)
bump(version) == version + 1

(***************************************************************************)
(* generators.py                                                           *)
(***************************************************************************)
\* the (language, test_style) pairs with a @register'ed generator
_registry == { <<"python", "script">> }

get_generator_raises(language, style) == <<language, style>> \notin _registry

\* python_script_unittest raises ValueError without test cases
python_script_unittest_raises(spec) == spec.test_cases = <<>>

\* The runner source: the text is fixed but for TIMEOUT and, per case in
\* order, the repr of its stdin and of its expected stdout.
python_script_unittest(spec) ==
    [ TIMEOUT |-> IF spec.timeout_seconds = NoInt THEN 5 ELSE spec.timeout_seconds,
      methods |-> [ k \in 1..Len(spec.test_cases) |->
                      [ input_data |-> IF "input" \in DOMAIN spec.test_cases[k]
                                       THEN spec.test_cases[k].input ELSE "",
                        expected   |-> spec.test_cases[k].output ] ] ]

NoContent == [ TIMEOUT |-> NoInt, methods |-> <<>> ]

\* cache.get(language) when the language has no entry
NoEntry == [ version |-> NoInt, generator_version |-> None,
             content |-> NoContent, has_content |-> FALSE, present |-> FALSE ]

\* a freshness test that leaves out the version comparison
is_fresh_any_version(entry, version, generator_version) ==
    /\ entry.present
    /\ entry.generator_version = generator_version
    /\ entry.has_content
\* lines 48-53: the freshness test of a cache entry
is_fresh(entry, version, generator_version) ==
    /\ entry.present
    /\ entry.version = version
    /\ entry.generator_version = generator_version
    /\ entry.has_content

\* lines 61-65: the entry written after a build
new_entry(version, generator_version, content) ==
    [ version |-> version, generator_version |-> generator_version,
      content |-> content, has_content |-> TRUE, present |-> TRUE ]


(***************************************************************************)
(* signals.py                                                              *)
(***************************************************************************)
COMPILED_FIELDS == {"compiled_spec", "compiled_at", "compiled_version"}

\* a receiver that compiles after every save of the question
receiver_skips_never(update_fields) == FALSE

\* compile_on_question_save returns early (lines 13-15) for a save limited to
\* the compiled_* fields; update_fields = {} stands for update_fields=None
receiver_skips(update_fields) ==
    update_fields # {} /\ update_fields \subseteq COMPILED_FIELDS

\* the longest save -> compile -> save chain that is followed
MaxChain == 3

(***************************************************************************)
(* The chain one save of the question starts, for a compile that does not  *)
(* raise: post_save calls compile_on_question_save, which returns early or *)
(* calls compile_question (signals.py line 17); compile_question raises    *)
(* compiled_version and saves with update_fields = COMPILED_FIELDS         *)
(* (compiler.py lines 147-148), which sends post_save again.  The value is *)
(* compiled_version when the chain has ended, or after MaxChain compiles.  *)
(***************************************************************************)
RECURSIVE post_save_chain(_, _, _)
post_save_chain(version, update_fields, depth) ==
    IF receiver_skips(update_fields) \/ depth = 0
    THEN version
    ELSE post_save_chain(bump(version), COMPILED_FIELDS, depth - 1)

(***************************************************************************)
(* Outcome of the last operation.  content, from_cache and gen_called      *)
(* describe a get_or_build_runner call that returned; entry and version    *)
(* are the cache entry and the compiled_version the freshness test looked  *)
(* at.  A call that raised returns nothing.  For a save of the question,   *)
(* version is the compiled_version the saved instance carried.             *)
(***************************************************************************)
SaveOps == {"form_save", "standardio_save", "function_save"}

Ret(op, raised) ==
    [ op |-> IF op = "get_or_build_runner" THEN op
             ELSE IF op \in SaveOps THEN "save" ELSE "other",
      raised |-> IF op = "get_or_build_runner" \/ op \in SaveOps THEN raised ELSE FALSE,
      content |-> NoContent,
      from_cache |-> FALSE, gen_called |-> FALSE,
      entry |-> NoEntry, version |-> NoInt,
      language |-> None, generator_version |-> None ]

InitQuestion ==
    /\ test_style = "script"
    /\ timeout_seconds \in Timeouts
    /\ overall_timeout_seconds = NoInt
    /\ test_cases = [ i \in CaseIds |-> Absent ]
    /\ compiled_spec = EmptySpec
    /\ compiled_version = 0
    /\ compiled_runner_cache = [ l \in Languages |-> NoEntry ]
    /\ ret = Ret("init", FALSE)

(***************************************************************************)
(* compile_question(question): lines 95-150.  Its own save is limited to   *)
(* the compiled_* fields, so compile_on_question_save skips it.            *)
(***************************************************************************)
compile_question ==
    /\ compiled_version < MaxVersion
    /\ receiver_skips({"compiled_spec", "compiled_at", "compiled_version"})
    /\ IF compile_question_raises(test_style, test_cases)
       THEN /\ ret' = Ret("compile_question", TRUE)
            /\ UNCHANGED <<compiled_spec, compiled_version>>
       ELSE /\ compiled_spec' = compile_question_spec(test_style, test_cases,
                                    timeout_seconds, overall_timeout_seconds)
            /\ compiled_version' = bump(compiled_version)
            /\ ret' = Ret("compile_question", FALSE)
    /\ UNCHANGED <<test_style, timeout_seconds, overall_timeout_seconds,
                   test_cases, compiled_runner_cache>>
    /\ UNCHANGED <<svars, lvars, yvars, cvars>>

(***************************************************************************)
(* CodeTestCase.save() and .delete(): the row is written, then             *)
(* compile_on_case_save / compile_on_case_delete call compile_question.    *)
(* An exception of the receiver leaves the written row in place.           *)
(***************************************************************************)
CaseWritten(op, tc) ==
    /\ compiled_version < MaxVersion
    /\ test_cases' = tc
    /\ IF compile_question_raises(test_style, tc)
       THEN /\ ret' = Ret(op, TRUE)
            /\ UNCHANGED <<compiled_spec, compiled_version>>
       ELSE /\ compiled_spec' = compile_question_spec(test_style, tc,
                                    timeout_seconds, overall_timeout_seconds)
            /\ compiled_version' = bump(compiled_version)
            /\ ret' = Ret(op, FALSE)
    /\ UNCHANGED <<test_style, timeout_seconds, overall_timeout_seconds,
                   compiled_runner_cache>>
    /\ UNCHANGED <<svars, lvars, yvars, cvars>>

compile_on_case_save ==
    \E i \in CaseIds, row \in CaseRows :
        /\ row.exists
        /\ CaseWritten("case_save", [test_cases EXCEPT ![i] = row])

compile_on_case_delete ==
    \E i \in CaseIds :
        /\ test_cases[i].exists
        /\ CaseWritten("case_delete", [test_cases EXCEPT ![i] = Absent])


(***************************************************************************)
(* Inputs of the authoring endpoints.  YamlSpecs are results of            *)
(* compile_yaml_to_spec (forms.py clean_yaml_spec); BuilderSpecs are       *)
(* bodies that _validate_standardio accepts: it checks type, description   *)
(* and each test of tests, an empty list passing, and ignores any other    *)
(* key, so a body may carry test_style and test_cases next to them.        *)
(***************************************************************************)
StdioSpec(tests) ==
    [ EmptySpec EXCEPT !.type = "standardIo", !.tests = tests ]

YamlSpecs ==
    { StdioSpec(<< [name |-> "add", stdin |-> "2\n3\n", stdout |-> "5\n"] >>),
      StdioSpec(<< [name |-> "echo", stdin |-> "", stdout |-> "ok\n"] >>) }

BuilderSpecs ==
    { StdioSpec(<<>>),
      StdioSpec(<< [name |-> "add", stdin |-> "2\n3\n", stdout |-> "5\n"] >>),
      [ StdioSpec(<< [name |-> "sq", stdin |-> "9\n", stdout |-> "81\n"] >>)
          EXCEPT !.test_style = "script",
                 !.test_cases = << [input |-> "9\n", output |-> "81\n"] >> ] }

FunctionSpecs ==
    { [ EmptySpec EXCEPT !.type = "function",
          !.tests = << [name |-> "base", stdin |-> "", stdout |-> "1"] >> ] }

(***************************************************************************)
(* Model.save() without update_fields on the question: the row is written  *)
(* with the given fields, then compile_on_question_save calls              *)
(* compile_question.  atomic tells whether the caller wraps the save in    *)
(* transaction.atomic, in which case an exception of the receiver rolls    *)
(* the row back.                                                           *)
(***************************************************************************)
question_save(op, style, timeout, spec, version, atomic) ==
    /\ ~receiver_skips({})
    /\ version < MaxVersion
    /\ IF compile_question_raises(style, test_cases)
       THEN /\ ret' = [ Ret(op, TRUE) EXCEPT !.version = version ]
            /\ IF atomic
               THEN UNCHANGED <<test_style, timeout_seconds, compiled_spec, compiled_version>>
               ELSE /\ test_style' = style
                    /\ timeout_seconds' = timeout
                    /\ compiled_spec' = spec
                    /\ compiled_version' = version
       ELSE /\ test_style' = style
            /\ timeout_seconds' = timeout
            /\ compiled_spec' = compile_question_spec(style, test_cases, timeout,
                                                      overall_timeout_seconds)
            /\ compiled_version' = post_save_chain(version, {}, MaxChain)
            /\ ret' = [ Ret(op, FALSE) EXCEPT !.version = version ]
    /\ UNCHANGED <<overall_timeout_seconds, test_cases, compiled_runner_cache>>
    /\ UNCHANGED <<svars, lvars, yvars, cvars>>

(***************************************************************************)
(* CodeQuestionForm.save (forms.py lines 258-273)                          *)
(***************************************************************************)
\* lines 263-269: the version the form leaves on the instance
form_version(new_compiled, old_compiled, version) ==
    IF new_compiled # old_compiled THEN version + 1 ELSE version

CodeQuestionForm_save ==
    \E new_compiled \in YamlSpecs, timeout \in Timeouts, commit \in BOOLEAN :
        IF commit
        THEN question_save("form_save", test_style, timeout, new_compiled,
                           form_version(new_compiled, compiled_spec, compiled_version),
                           TRUE)
        ELSE /\ ret' = Ret("form_unsaved", FALSE)
             /\ UNCHANGED <<test_style, timeout_seconds, overall_timeout_seconds,
                            test_cases, compiled_spec, compiled_version,
                            compiled_runner_cache>>
             /\ UNCHANGED <<svars, lvars, yvars, cvars>>

(***************************************************************************)
(* standardio_save (views.py lines 51-109) and function_save               *)
(* (views/function_views.py lines 203-316) on an existing question         *)
(***************************************************************************)
standardio_save ==
    \E spec \in BuilderSpecs, timeout \in Timeouts :
        /\ spec.type = "standardIo"      \* _validate_standardio, line 117
        /\ question_save("standardio_save", test_style, timeout, spec,
                         compiled_version, FALSE)

function_save ==
    \E spec \in FunctionSpecs, timeout \in Timeouts :
        /\ spec.type = "function"        \* _validate_function_spec, line 61
        /\ question_save("function_save", "function", timeout, spec,
                         compiled_version, FALSE)

(***************************************************************************)
(* get_or_build_runner(question, language, generator_version)              *)
(* (generators.py lines 36-68)                                             *)
(***************************************************************************)
\* line 42: the snapshot is missing or was compiled for another style
needs_compile(spec, style) == spec = EmptySpec \/ spec.test_style # style

get_or_build_runner ==
    \E language \in Languages, generator_version \in GeneratorVersions :
      LET compiles == needs_compile(compiled_spec, test_style)
          spec1 == IF compiles
                   THEN compile_question_spec(test_style, test_cases,
                            timeout_seconds, overall_timeout_seconds)
                   ELSE compiled_spec
          version1 == IF compiles THEN bump(compiled_version) ELSE compiled_version
          entry == compiled_runner_cache[language]
          content == python_script_unittest(spec1)
          looked == [ Ret("get_or_build_runner", FALSE) EXCEPT
                        !.entry = entry, !.version = version1,
                        !.language = language,
                        !.generator_version = generator_version ]
      IN
      /\ version1 <= MaxVersion
      /\ UNCHANGED <<test_style, timeout_seconds, overall_timeout_seconds, test_cases>>
      /\ UNCHANGED <<svars, lvars, yvars, cvars>>
      /\ IF compiles /\ compile_question_raises(test_style, test_cases)
         THEN \* line 43 raises
              /\ ret' = Ret("get_or_build_runner", TRUE)
              /\ UNCHANGED <<compiled_spec, compiled_version, compiled_runner_cache>>
         ELSE IF is_fresh(entry, version1, generator_version)
         THEN \* line 54: served from the cache
              /\ ret' = [ looked EXCEPT !.content = entry.content, !.from_cache = TRUE ]
              /\ compiled_spec' = spec1
              /\ compiled_version' = version1
              /\ UNCHANGED compiled_runner_cache
         ELSE IF \/ get_generator_raises(language, test_style)
                 \/ python_script_unittest_raises(spec1)
         THEN \* lines 57-58 raise
              /\ ret' = Ret("get_or_build_runner", TRUE)
              /\ compiled_spec' = spec1
              /\ compiled_version' = version1
              /\ UNCHANGED compiled_runner_cache
         ELSE \* lines 61-68: store, save(update_fields=["compiled_runner_cache"]);
              \* compile_on_question_save does not skip this save
              /\ ~receiver_skips({"compiled_runner_cache"})
              /\ compiled_runner_cache' =
                     [ compiled_runner_cache EXCEPT
                         ![language] = new_entry(version1, generator_version, content) ]
              /\ IF compile_question_raises(test_style, test_cases)
                 THEN /\ ret' = Ret("get_or_build_runner", TRUE)
                      /\ compiled_spec' = spec1
                      /\ compiled_version' = version1
                 ELSE /\ ret' = [ looked EXCEPT !.content = content, !.gen_called = TRUE ]
                      /\ compiled_spec' = compile_question_spec(test_style, test_cases,
                                              timeout_seconds, overall_timeout_seconds)
                      /\ compiled_version' = bump(version1)

(***************************************************************************)
(* Part B: one submission through sandbox/views.py run_code and            *)
(* submit_code and sandbox/utils.py run_submission, step by step, and the  *)
(* student payload of the stored Submission.                               *)
(*                                                                         *)
(* Text that the code searches (failure messages, runner output) is a      *)
(* sequence of one-character strings.                                      *)
(***************************************************************************)
UpperCase == <<"A", "B", "C", "D", "E", "F", "G", "H", "I", "J", "K", "L", "M", "N", "O", "P", "Q", "R", "S", "T", "U", "V", "W", "X", "Y", "Z">>
LowerCase == <<"a", "b", "c", "d", "e", "f", "g", "h", "i", "j", "k", "l", "m", "n", "o", "p", "q", "r", "s", "t", "u", "v", "w", "x", "y", "z">>

\* str.lower()
LowerChar(c) ==
    IF \E i \in 1..Len(UpperCase) : UpperCase[i] = c
    THEN LowerCase[CHOOSE i \in 1..Len(UpperCase) : UpperCase[i] = c]
    ELSE c

lower(s) == [ i \in 1..Len(s) |-> LowerChar(s[i]) ]

\* needle in hay
Contains(hay, needle) ==
    \E i \in 0..(Len(hay) - Len(needle)) :
        SubSeq(hay, i + 1, i + Len(needle)) = needle

\* s[:n]
Take(s, n) == IF Len(s) <= n THEN s ELSE SubSeq(s, 1, n)

MESSAGE_MAX == 2000
DETAILS_MAX == 4000

TIMEOUT_WORD == <<"t", "i", "m", "e", "o", "u", "t">>
SPACE == <<" ">>

(***************************************************************************)
(* report.xml: absent, not well-formed, or a list of <testsuite> elements  *)
(* (the root itself when the root is a testsuite).  An attribute is an     *)
(* integer literal or text that int() rejects.                             *)
(***************************************************************************)
MaxSuites == 2

IntAttr(n) == [ isint |-> TRUE, val |-> n ]
BadAttr == [ isint |-> FALSE, val |-> 0 ]

NoNode == [ present |-> FALSE, message |-> <<>>, text |-> <<>> ]
Node(message, text) == [ present |-> TRUE, message |-> message, text |-> text ]

TestCase(name, failure, error) == [ name |-> name, failure |-> failure, error |-> error ]

Suite(tests, failures, errors, cases) ==
    [ tests |-> tests, failures |-> failures, errors |-> errors, cases |-> cases ]

MSG_ASSERT == <<"a", "s", "s", "e", "r", "t", " ", "1", " ", "=", "=", " ", "2">>
MSG_PYTEST_TIMEOUT == <<"F", "a", "i", "l", "e", "d", ":", " ", "T", "i", "m", "e", "o", "u", "t", " ", ">", "1", ".", "0", "s">>
MSG_TIME == <<"t", "i", "m", "e">>
TXT_OUT == <<"o", "u", "t">>
TXT_UPPER == <<"E", " ", "T", "I", "M", "E", "O", "U", "T">>

Suites ==
    { Suite(IntAttr(2), IntAttr(0), IntAttr(0),
            << TestCase("test_a", NoNode, NoNode), TestCase("test_b", NoNode, NoNode) >>),
      Suite(IntAttr(1), IntAttr(1), IntAttr(0),
            << TestCase("test_a", Node(MSG_ASSERT, <<>>), NoNode) >>),
      Suite(IntAttr(1), IntAttr(1), IntAttr(0),
            << TestCase("test_a", Node(MSG_PYTEST_TIMEOUT, <<>>), NoNode) >>),
      Suite(IntAttr(1), IntAttr(1), IntAttr(0),
            << TestCase("test_a", Node(MSG_TIME, TXT_OUT), NoNode) >>),
      Suite(IntAttr(2), IntAttr(1), IntAttr(0),
            << TestCase("test_a", NoNode, NoNode),
               TestCase("test_b", Node(<<>>, TXT_UPPER), NoNode) >>),
      Suite(IntAttr(1), IntAttr(0), IntAttr(1),
            << TestCase("test_a", NoNode, Node(MSG_PYTEST_TIMEOUT, <<>>)) >>),
      Suite(IntAttr(2), IntAttr(1), IntAttr(1),
            << TestCase("test_a", Node(MSG_ASSERT, <<>>), Node(MSG_PYTEST_TIMEOUT, <<>>)) >>),
      Suite(IntAttr(1), IntAttr(1), IntAttr(0),
            << TestCase("test_a", NoNode, NoNode) >>),
      Suite(BadAttr, IntAttr(0), IntAttr(0), << >>) }

SuiteLists == UNION { [ 1..n -> Suites ] : n \in 0..MaxSuites }

NoFile == [ exists |-> FALSE, wellformed |-> FALSE, suites |-> <<>> ]
Malformed == [ exists |-> TRUE, wellformed |-> FALSE, suites |-> <<>> ]
Reports == { NoFile, Malformed }
           \cup { [ exists |-> TRUE, wellformed |-> TRUE, suites |-> ss ] : ss \in SuiteLists }

(***************************************************************************)
(* _normalize_junit (views.py lines 409-464; the same code at 158-217,     *)
(* 678-723 and, on the stored text, 15-79)                                 *)
(***************************************************************************)
NoFailure == [ present |-> FALSE, test |-> None, message |-> <<>>, details |-> <<>> ]

\* int(suite.get(...)) raises ValueError on some suite
int_raises(suites) ==
    \E k \in 1..Len(suites) :
        ~suites[k].tests.isint \/ ~suites[k].failures.isint \/ ~suites[k].errors.isint

\* lines 433-446: the first testcase of the suite with a <failure> or <error>
RECURSIVE first_in_cases(_)
first_in_cases(cases) ==
    IF cases = <<>> THEN NoFailure
    ELSE LET case == Head(cases)
             node == IF case.failure.present THEN case.failure ELSE case.error
         IN  IF case.failure.present \/ case.error.present
             THEN [ present |-> TRUE, test |-> case.name,
                    message |-> Take(node.message, MESSAGE_MAX),
                    details |-> Take(node.text, DETAILS_MAX) ]
             ELSE first_in_cases(Tail(cases))

\* lines 427-446: one pass over the suites, accumulating
RECURSIVE accumulate(_, _)
accumulate(suites, acc) ==
    IF suites = <<>> THEN acc
    ELSE LET suite == Head(suites)
         IN  accumulate(Tail(suites),
                 [ tests    |-> acc.tests + suite.tests.val,
                   failures |-> acc.failures + suite.failures.val,
                   errors   |-> acc.errors + suite.errors.val,
                   first_failure |-> IF acc.first_failure.present
                                     THEN acc.first_failure
                                     ELSE first_in_cases(suite.cases) ])

\* the precedence with failures ahead of errors
status_of_failures_first(total_failures, total_errors) ==
    IF total_failures > 0 THEN "failed"
    ELSE IF total_errors > 0 THEN "error"
    ELSE "passed"
\* lines 448-453
status_of(total_failures, total_errors) ==
    IF total_errors > 0 THEN "error"
    ELSE IF total_failures > 0 THEN "failed"
    ELSE "passed"

ZeroSummary == [ tests |-> 0, failures |-> 0, errors |-> 0 ]

\* a no-report verdict whose status is outside Submission.Status
SandboxError_unlisted ==
    [ status |-> "crashed", summary |-> ZeroSummary, first_failure |-> NoFailure ]

SandboxError ==
    [ status |-> "sandbox_error", summary |-> ZeroSummary, first_failure |-> NoFailure ]

\* ET.parse raises on text that is not well-formed, int() on a bad attribute
_normalize_junit_raises(file) ==
    file.exists /\ (~file.wellformed \/ int_raises(file.suites))

_normalize_junit(file) ==
    IF ~file.exists THEN SandboxError
    ELSE LET acc == accumulate(file.suites,
                        [ tests |-> 0, failures |-> 0, errors |-> 0,
                          first_failure |-> NoFailure ])
         IN  [ status |-> status_of(acc.failures, acc.errors),
               summary |-> [ tests |-> acc.tests, failures |-> acc.failures,
                             errors |-> acc.errors ],
               first_failure |-> acc.first_failure ]

\* message and details joined without the space
failure_text_unseparated(ff) == ff.message \o ff.details
\* lines 468-473 (= 93-97 = 727-731): the text searched for "timeout"
failure_text(ff) == ff.message \o SPACE \o ff.details

reclassify(verdict) ==
    IF /\ verdict.status = "failed"
       /\ verdict.first_failure.present
       /\ Contains(lower(failure_text(verdict.first_failure)), TIMEOUT_WORD)
    THEN [ verdict EXCEPT !.status = "timeout" ]
    ELSE verdict

\* a TimeoutExpired branch that reports unknown
host_timeout_result_unknown ==
    [ status |-> "unknown", summary |-> ZeroSummary, first_failure |-> NoFailure ]
\* lines 378-380 and 665-666: the verdict of the TimeoutExpired branch
host_timeout_result ==
    [ status |-> "timeout", summary |-> ZeroSummary, first_failure |-> NoFailure ]

\* _normalize_junit_str (lines 15-79) on Submission.junit_xml: empty text and
\* text that ET.fromstring rejects both give sandbox_error
_normalize_junit_str_raises(xml) ==
    xml.exists /\ xml.wellformed /\ int_raises(xml.suites)

_normalize_junit_str(xml) ==
    IF ~xml.exists \/ ~xml.wellformed THEN SandboxError
    ELSE _normalize_junit(xml)

(***************************************************************************)
(* sandbox/utils.py: _parse_script_results (lines 70-105).  stdout is the  *)
(* list of lines left by stdout.strip().splitlines().                      *)
(***************************************************************************)
\* str.count: non-overlapping occurrences, left to right
RECURSIVE count(_, _)
count(hay, needle) ==
    IF Len(hay) < Len(needle) THEN 0
    ELSE IF SubSeq(hay, 1, Len(needle)) = needle
         THEN 1 + count(SubSeq(hay, Len(needle) + 1, Len(hay)), needle)
         ELSE count(Tail(hay), needle)

WORD_OK == <<"O", "K">>
WORD_FAILED == <<"F", "A", "I", "L", "E", "D">>
WORD_passed == <<"p", "a", "s", "s", "e", "d">>
WORD_failed == <<"f", "a", "i", "l", "e", "d">>

Stdouts ==
    { << >>,
      << <<"R", "a", "n", " ", "1", " ", "t", "e", "s", "t">>, <<"O", "K">> >>,
      << <<"R", "a", "n", " ", "1", " ", "t", "e", "s", "t">>, <<"F", "A", "I", "L", "E", "D", " ", "(", "f", "a", "i", "l", "u", "r", "e", "s", "=", "1", ")">> >>,
      << <<"F", "A", "I", "L", "E", "D", " ", "1", " ", "f", "a", "i", "l", "e", "d", ",", " ", "1", " ", "p", "a", "s", "s", "e", "d">> >>,
      << <<"R", "a", "n", " ", "1", " ", "t", "e", "s", "t">> >> }

_parse_script_results(stdout, timeout) ==
    IF stdout = << >>
    THEN [ ok |-> FALSE, error |-> TRUE, total |-> 0, passed |-> 0, failed |-> 0,
           submission_timeout |-> timeout ]
    ELSE LET last_line == stdout[Len(stdout)]
             passed_count == IF Contains(last_line, WORD_OK) THEN count(last_line, WORD_OK)
                             ELSE IF Contains(last_line, WORD_FAILED)
                                  THEN count(last_line, WORD_passed)
                                  ELSE 0
             failed_count == IF Contains(last_line, WORD_OK) THEN 0
                             ELSE IF Contains(last_line, WORD_FAILED)
                                  THEN count(last_line, WORD_failed)
                                  ELSE 0
         IN  [ ok |-> failed_count = 0 /\ ~timeout, error |-> FALSE,
               total |-> passed_count + failed_count,
               passed |-> passed_count, failed |-> failed_count,
               submission_timeout |-> timeout ]

\* lines 222-227 and 177-181: the dict returned for an error
ErrorDict ==
    [ ok |-> FALSE, error |-> TRUE, total |-> 0, passed |-> 0, failed |-> 0,
      submission_timeout |-> FALSE ]

\* returncode _run_in_docker reports when subprocess.run timed out (line 64)
TIMEOUT_RETURNCODE == 124

(***************************************************************************)
(* State of the submission in flight                                       *)
(***************************************************************************)
NoResult == [ status |-> None, summary |-> ZeroSummary, first_failure |-> NoFailure ]

NoProc == [ ended |-> "none", returncode |-> 0, stdout |-> << >> ]

NoResponse ==
    [ kind |-> "none", status |-> None, summary |-> ZeroSummary,
      first_failure |-> NoFailure, tails |-> FALSE, persistence_error |-> FALSE,
      dict |-> ErrorDict ]

NoSubmission ==
    [ exists |-> FALSE, status |-> None, summary |-> ZeroSummary, junit_xml |-> NoFile ]

NoPayload ==
    [ kind |-> "none", status |-> None, title |-> None, summary |-> ZeroSummary,
      first_failure |-> [ present |-> FALSE, test |-> None, message |-> <<>> ],
      debug |-> FALSE ]

Exception == [ NoResponse EXCEPT !.kind = "exception" ]

InitSandbox ==
    /\ pc = "idle"
    /\ endpoint = None
    /\ cq_id = FALSE
    /\ run_spec = EmptySpec
    /\ workspace = "none"
    /\ container = "none"
    /\ report = NoFile
    /\ proc = NoProc
    /\ norm = NoResult
    /\ result = NoResult
    /\ response = NoResponse
    /\ stored = NoSubmission
    /\ payload = NoPayload

\* compiled_specs given to run_submission: a script spec with one case, one
\* without cases, and a function spec
RunSpecs ==
    { compile_question_spec("script",
          [ i \in CaseIds |-> IF i = 1 THEN [ order |-> 0, is_active |-> TRUE,
                                              data |-> CaseA, exists |-> TRUE ]
                              ELSE Absent ], 1, NoInt),
      compile_question_spec("script", [ i \in CaseIds |-> Absent ], 1, NoInt),
      compile_question_spec("function", [ i \in CaseIds |-> Absent ], 1, NoInt) }

IsView == endpoint \in {"run_code", "submit_code"}

(***************************************************************************)
(* tempfile.mkdtemp (views.py lines 323, 613); TemporaryDirectory          *)
(* (utils.py line 186) after the language test of lines 176-181            *)
(***************************************************************************)
Fresh ==
    /\ container' = "none"
    /\ report' = NoFile
    /\ proc' = NoProc
    /\ norm' = NoResult
    /\ result' = NoResult
    /\ stored' = NoSubmission
    /\ payload' = NoPayload

mkdtemp ==
    /\ UNCHANGED <<qvars, lvars, yvars, cvars>>
    /\ pc \in {"idle", "done"}
    /\ Fresh
    /\ \/ /\ endpoint' = "run_code"
          /\ cq_id' \in BOOLEAN
          /\ run_spec' = EmptySpec
          /\ workspace' = "exists"
          /\ response' = NoResponse
          /\ pc' = "stage"
       \/ /\ endpoint' = "submit_code"
          /\ cq_id' = TRUE
          /\ run_spec' = EmptySpec
          /\ workspace' = "exists"
          /\ response' = NoResponse
          /\ pc' = "stage"
       \/ /\ endpoint' = "run_submission"
          /\ cq_id' = FALSE
          /\ run_spec' \in RunSpecs
          /\ \E language \in Languages :
               IF language # "python"
               THEN /\ workspace' = "none"
                    /\ response' = [ NoResponse EXCEPT !.kind = "dict" ]
                    /\ pc' = "done"
               ELSE /\ workspace' = "exists"
                    /\ response' = NoResponse
                    /\ pc' = "stage"

(***************************************************************************)
(* Staging: views.py lines 327-342, 617-624; utils.py lines 188-198.       *)
(* written is FALSE when a write to the workspace raises OSError.          *)
(***************************************************************************)
\* run_submission's except clause (lines 222-227) turns the exception into a dict
raise ==
    IF IsView THEN Exception ELSE [ NoResponse EXCEPT !.kind = "dict" ]

stage ==
    /\ UNCHANGED <<qvars, lvars, yvars, cvars>>
    /\ pc = "stage"
    /\ \E written \in BOOLEAN :
         IF /\ written
            /\ IsView \/ ~( \/ get_generator_raises("python", run_spec.test_style)
                            \/ python_script_unittest_raises(run_spec) )
         THEN /\ pc' = "launch"
              /\ UNCHANGED response
         ELSE /\ pc' = "finally"
              /\ response' = raise
    /\ UNCHANGED <<endpoint, cq_id, run_spec, workspace, container, report, proc,
                   norm, result, stored, payload>>

(***************************************************************************)
(* docker run: views.py lines 345-370, 626-651; utils.py lines 29-56.      *)
(* docker is FALSE when the docker binary is missing: subprocess.run       *)
(* raises FileNotFoundError, _ensure_docker_available RuntimeError.        *)
(***************************************************************************)
launch ==
    /\ UNCHANGED <<qvars, lvars, yvars, cvars>>
    /\ pc = "launch"
    /\ \E docker \in BOOLEAN :
         IF docker
         THEN /\ container' = "running"
              /\ pc' = "wait"
              /\ UNCHANGED response
         ELSE /\ pc' = "finally"
              /\ response' = raise
              /\ UNCHANGED container
    /\ UNCHANGED <<endpoint, cq_id, run_spec, workspace, report, proc,
                   norm, result, stored, payload>>

\* the container's process exits before the timeout; --rm removes the container
completed ==
    /\ UNCHANGED <<qvars, lvars, yvars, cvars>>
    /\ pc = "wait"
    /\ container' = "removed"
    /\ IF IsView
       THEN /\ report' \in Reports
            /\ \E rc \in {0, 1} :
                 proc' = [ ended |-> "completed", returncode |-> rc, stdout |-> << >> ]
       ELSE /\ report' = NoFile
            /\ \E rc \in {0, 1}, out \in Stdouts :
                 proc' = [ ended |-> "completed", returncode |-> rc, stdout |-> out ]
    /\ pc' = "parse"
    /\ UNCHANGED <<endpoint, cq_id, run_spec, workspace, norm, result, response,
                   stored, payload>>

\* what the except TimeoutExpired clauses do to the container (views.py lines
\* 374-406, 655-675; utils.py lines 58-67): nothing, it keeps running
container_after_timeout(c) == c

\* subprocess.run raises TimeoutExpired: the docker client process is killed
TimeoutExpired ==
    /\ UNCHANGED <<qvars, lvars, yvars, cvars>>
    /\ pc = "wait"
    /\ container' = container_after_timeout(container)
    /\ IF IsView THEN report' \in { NoFile } \cup { r \in Reports : Len(r.suites) = 1 }
                 ELSE report' = NoFile
    /\ proc' = [ ended |-> "timeout",
                 returncode |-> IF IsView THEN 0 ELSE TIMEOUT_RETURNCODE,
                 stdout |-> << >> ]
    /\ pc' = "parse"
    /\ UNCHANGED <<endpoint, cq_id, run_spec, workspace, norm, result, response,
                   stored, payload>>

\* a container left running ends by itself later and --rm removes it
container_exits ==
    /\ UNCHANGED <<qvars, lvars, yvars, cvars>>
    /\ pc \in {"parse", "persist", "finally", "done"}
    /\ container = "running"
    /\ container' = "removed"
    /\ UNCHANGED <<pc, endpoint, cq_id, run_spec, workspace, report, proc,
                   norm, result, response, stored, payload>>

(***************************************************************************)
(* Verdict: views.py lines 374-385 / 466-473, 655-666 / 725-731;           *)
(* utils.py lines 210-220                                                  *)
(***************************************************************************)
parse ==
    /\ UNCHANGED <<qvars, lvars, yvars, cvars>>
    /\ pc = "parse"
    /\ IF ~IsView
       THEN /\ response' = [ NoResponse EXCEPT !.kind = "dict",
                  !.dict = IF run_spec.test_style = "script"
                           THEN _parse_script_results(proc.stdout,
                                    proc.returncode = TIMEOUT_RETURNCODE)
                           ELSE ErrorDict ]
            /\ pc' = "finally"
            /\ UNCHANGED <<norm, result>>
       ELSE IF proc.ended = "timeout"
       THEN /\ result' = host_timeout_result
            /\ pc' = "persist"
            /\ UNCHANGED <<norm, response>>
       ELSE IF _normalize_junit_raises(report)
       THEN /\ response' = raise
            /\ pc' = "finally"
            /\ UNCHANGED <<norm, result>>
       ELSE /\ norm' = _normalize_junit(report)
            /\ result' = reclassify(_normalize_junit(report))
            /\ pc' = "persist"
            /\ UNCHANGED response
    /\ UNCHANGED <<endpoint, cq_id, run_spec, workspace, container, report, proc,
                   stored, payload>>

(***************************************************************************)
(* Submission.objects.create and the response: views.py lines 387-406,     *)
(* 475-517, 660-675, 733-755.  saved is FALSE when the create raises.      *)
(***************************************************************************)
\* junit_xml as stored: "" on the timeout branch and when the file is missing
junit_xml == IF proc.ended = "timeout" THEN NoFile ELSE report

Submission ==
    [ exists |-> TRUE, status |-> result.status, summary |-> result.summary,
      junit_xml |-> junit_xml ]

JsonResponse(persistence_error) ==
    [ NoResponse EXCEPT !.kind = "json", !.status = result.status,
        !.summary = result.summary, !.first_failure = result.first_failure,
        !.tails = TRUE, !.persistence_error = persistence_error ]

redirect(submission) ==
    [ NoResponse EXCEPT !.kind = "redirect", !.status = submission.status,
        !.summary = submission.summary ]

persist ==
    /\ UNCHANGED <<qvars, lvars, yvars, cvars>>
    /\ pc = "persist"
    /\ \E saved \in BOOLEAN :
         IF endpoint = "run_code"
         THEN IF cq_id
              THEN /\ stored' = IF saved THEN Submission ELSE NoSubmission
                   /\ response' = JsonResponse(~saved)
              ELSE /\ saved
                   /\ stored' = NoSubmission
                   /\ response' = JsonResponse(FALSE)
         ELSE IF saved
              THEN /\ stored' = Submission
                   /\ response' = redirect(Submission)
              ELSE /\ stored' = NoSubmission
                   /\ response' = raise
    /\ pc' = "finally"
    /\ UNCHANGED <<endpoint, cq_id, run_spec, workspace, container, report, proc,
                   norm, result, payload>>

\* a run that returns without the finally clause
rmtree_skipped(w) == w
\* what the finally clause / the with statement leaves of the workspace
\* (views.py lines 519-520, 757-758; utils.py line 186)
rmtree(w) == "removed"

cleanup ==
    /\ UNCHANGED <<qvars, lvars, yvars, cvars>>
    /\ pc = "finally"
    /\ workspace' = rmtree(workspace)
    /\ pc' = "done"
    /\ UNCHANGED <<endpoint, cq_id, run_spec, container, report, proc,
                   norm, result, response, stored, payload>>

(***************************************************************************)
(* submission_result -> _student_payload_from_submission (lines 82-155)    *)
(***************************************************************************)
title_of(status) ==
    IF status = "passed" THEN "All tests passed"
    ELSE IF status = "timeout" THEN "Timed out"
    ELSE IF status = "failed" THEN "Some tests failed"
    ELSE IF status = "error" THEN "Runtime error"
    ELSE "Sandbox issue"

_student_payload_from_submission(sub, debug) ==
    LET n0 == IF sub.junit_xml.exists
              THEN _normalize_junit_str(sub.junit_xml)
              ELSE [ status |-> sub.status, summary |-> sub.summary,
                     first_failure |-> NoFailure ]
        n == reclassify(n0)
    IN  [ kind |-> "payload", status |-> n.status, title |-> title_of(n.status),
          summary |-> n.summary,
          first_failure |-> [ present |-> n.first_failure.present,
                              test |-> n.first_failure.test,
                              message |-> n.first_failure.message ],
          debug |-> debug ]

submission_result ==
    /\ UNCHANGED <<qvars, lvars, yvars, cvars>>
    /\ pc = "done"
    /\ stored.exists
    /\ \E debug \in BOOLEAN :
         payload' = IF stored.junit_xml.exists /\ _normalize_junit_str_raises(stored.junit_xml)
                    THEN [ NoPayload EXCEPT !.kind = "exception" ]
                    ELSE _student_payload_from_submission(stored, debug)
    /\ UNCHANGED <<pc, endpoint, cq_id, run_spec, workspace, container, report,
                   proc, norm, result, response, stored>>

(***************************************************************************)
(* Part C: what run_code and submit_code do between reading the request    *)
(* and subprocess.run (runtime resolution, limits, docker command line,    *)
(* host timeout), and the launch of run_submission through _run_in_docker. *)
(***************************************************************************)
MaxRuntimes == 3

\* Runtime rows: ids and the name of each runtime's language
RuntimeIds == 1..MaxRuntimes
language_name(id) == IF id % 2 = 0 THEN "java" ELSE "python"

\* lang_hint after .strip().lower(); "" when the request has none
LangHints == {"", "python", "java", "ruby"}

\* next(t for t in qs if ...) over qs.order_by("runtime_id")
First(S) == CHOOSE i \in S : \A j \in S : i <= j

Pending == [ chosen |-> 0, error |-> "pending", available |-> {}, carries_available |-> FALSE ]
NoRuntime == [ Pending EXCEPT !.error = None ]
Chosen(id) == [ Pending EXCEPT !.chosen = id, !.error = None ]
BadRequest(error) == [ Pending EXCEPT !.error = error ]
JsonError(error, qs) ==
    [ Pending EXCEPT !.error = error, !.available = qs, !.carries_available = TRUE ]

\* run_code, lines 276-305
resolve_run_code(qs, runtime_id, lang_hint) ==
    IF qs = {} THEN BadRequest("no_tests")
    ELSE IF runtime_id # 0
    THEN IF runtime_id \in qs THEN Chosen(runtime_id)
         ELSE JsonError("runtime_id_no_test", qs)
    ELSE LET match == { t \in qs : language_name(t) = lang_hint }
         IN  IF lang_hint # "" /\ match # {} THEN Chosen(First(match))
             ELSE IF Cardinality(qs) = 1 THEN Chosen(First(qs))
             ELSE JsonError("multiple", qs)

\* submit_code, lines 581-598
resolve_submit_code(qs, runtime_id, lang_hint) ==
    IF qs = {} THEN BadRequest("no_tests")
    ELSE IF runtime_id # 0
    THEN IF runtime_id \in qs THEN Chosen(runtime_id)
         ELSE BadRequest("runtime_id_no_test")
    ELSE IF lang_hint # ""
    THEN LET match == { t \in qs : language_name(t) = lang_hint }
         IN  IF match # {} THEN Chosen(First(match))
             ELSE IF Cardinality(qs) = 1 THEN Chosen(First(qs))
             ELSE BadRequest("multiple")
    ELSE IF Cardinality(qs) = 1 THEN Chosen(First(qs))
    ELSE BadRequest("multiple")

\* an optional number of the request or of the question: absent, or a value
Missing == [ supplied |-> FALSE, val |-> 0 ]
Given(n) == [ supplied |-> TRUE, val |-> n ]

\* Python truth value of an optional number: None and 0 are false
truthy(x) == x.supplied /\ x.val # 0

\* a or b or d
or_else(a, b, d) == IF truthy(a) THEN a.val ELSE IF truthy(b) THEN b.val ELSE d

SYSTEM_TIMEOUT == 5
SYSTEM_MEMORY == 256

PayloadTimeouts == { Missing, Given(0), Given(3) }
PayloadMemories == { Missing, Given(0), Given(64) }
QuestionTimeouts == { Given(0), Given(2) }
QuestionMemories == { Given(0), Given(128) }

\* lines 317-319 and 607-609
resolve_limits(payload_timeout, payload_memory, cq_timeout, cq_memory) ==
    [ timeout_seconds |-> or_else(payload_timeout, cq_timeout, SYSTEM_TIMEOUT),
      memory_limit_mb |-> or_else(payload_memory, cq_memory, SYSTEM_MEMORY) ]

NoRequest ==
    [ endpoint |-> None, cq_id |-> FALSE, qs |-> {}, runtime_id |-> 0, lang_hint |-> "",
      payload_timeout |-> Missing, payload_memory |-> Missing,
      cq_timeout |-> Missing, cq_memory |-> Missing,
      model_timeout |-> NoInt, model_overall |-> NoInt ]

NoLimits == [ timeout_seconds |-> 0, memory_limit_mb |-> 0 ]

\* no docker run command yet
NoCmd ==
    [ launched |-> FALSE, by |-> None, rm |-> FALSE, name |-> FALSE, network |-> None,
      run_timeout |-> 0,
      read_only |-> FALSE, workspace_mount |-> None,
      tmpfs_size_mb |-> 0, tmpfs_options |-> {},
      memory_mb |-> 0, memory_swap_mb |-> Missing, cpus |-> 0, pids_limit |-> 0,
      cap_drop |-> None, no_new_privileges |-> FALSE ]

InitLaunch ==
    /\ rpc = "idle"
    /\ request = NoRequest
    /\ resolution = Pending
    /\ limits = NoLimits
    /\ compiled_specs = EmptySpec
    /\ docker_cmd = NoCmd
    /\ host_timeout = 0

\* run_code lines 246-315, submit_code lines 557-603: the request is read and
\* the StructuralTest is picked; the handler returns on an error and on a
\* runtime whose language is not python
resolve_runtime ==
    /\ UNCHANGED <<qvars, svars, yvars, cvars>>
    /\ rpc = "idle"
    /\ \E endpoint_ \in {"run_code", "submit_code"}, cq \in BOOLEAN,
          qs \in SUBSET RuntimeIds, runtime_id \in 0..(MaxRuntimes + 1),
          lang_hint \in LangHints :
         /\ endpoint_ = "submit_code" => cq
         /\ ~cq => (qs = {} /\ runtime_id = 0 /\ lang_hint = "")
         /\ request' = [ NoRequest EXCEPT !.endpoint = endpoint_, !.cq_id = cq, !.qs = qs,
                           !.runtime_id = runtime_id, !.lang_hint = lang_hint ]
         /\ resolution' = IF ~cq THEN NoRuntime
                          ELSE IF endpoint_ = "run_code"
                               THEN resolve_run_code(qs, runtime_id, lang_hint)
                               ELSE resolve_submit_code(qs, runtime_id, lang_hint)
    /\ rpc' = IF \/ ~request'.cq_id
                 \/ /\ resolution'.chosen # 0
                    /\ language_name(resolution'.chosen) = "python"
              THEN "limits" ELSE "returned"
    /\ limits' = NoLimits
    /\ compiled_specs' = EmptySpec
    /\ docker_cmd' = NoCmd
    /\ host_timeout' = 0

\* lines 317-319 and 607-609
limits_resolved ==
    /\ UNCHANGED <<qvars, svars, yvars, cvars>>
    /\ rpc = "limits"
    /\ \E pt \in PayloadTimeouts, pm \in PayloadMemories,
          ct \in QuestionTimeouts, cm \in QuestionMemories :
         LET cq_timeout == IF request.cq_id THEN ct ELSE Missing
             cq_memory  == IF request.cq_id THEN cm ELSE Missing
         IN  /\ request' = [ request EXCEPT !.payload_timeout = pt, !.payload_memory = pm,
                               !.cq_timeout = cq_timeout, !.cq_memory = cq_memory ]
             /\ limits' = resolve_limits(pt, pm, cq_timeout, cq_memory)
    /\ rpc' = "docker"
    /\ UNCHANGED <<resolution, compiled_specs, docker_cmd, host_timeout>>

\* docker_cmd of run_code (lines 345-359) and submit_code (lines 626-640)
view_docker_cmd(run_timeout, memory_mb) ==
    [ launched |-> TRUE, by |-> "view", rm |-> TRUE, name |-> FALSE, network |-> "none",
      run_timeout |-> run_timeout,
      read_only |-> TRUE, workspace_mount |-> "rw",
      tmpfs_size_mb |-> 16, tmpfs_options |-> {"rw", "noexec", "nosuid"},
      memory_mb |-> memory_mb, memory_swap_mb |-> Missing, cpus |-> 1, pids_limit |-> 256,
      cap_drop |-> "ALL", no_new_privileges |-> TRUE ]

Max(a, b) == IF a >= b THEN a ELSE b

HOST_FLOOR == 2
HOST_GRACE == 2

\* timeout= of subprocess.run in run_code (line 367) and submit_code (line 648)
view_host_timeout(run_timeout) == Max(HOST_FLOOR, run_timeout + HOST_GRACE)

\* run_code lines 345-370, submit_code lines 626-651
docker_run ==
    /\ UNCHANGED <<qvars, svars, yvars, cvars>>
    /\ rpc = "docker"
    /\ docker_cmd' = view_docker_cmd(limits.timeout_seconds, limits.memory_limit_mb)
    /\ host_timeout' = view_host_timeout(limits.timeout_seconds)
    /\ rpc' = "returned"
    /\ UNCHANGED <<request, resolution, limits, compiled_specs>>

\* cmd of _run_in_docker (utils.py lines 31-45) as run_submission calls it
\* (lines 201-208); name is sandbox-<basename of the temporary directory>
run_in_docker_cmd(spec) ==
    [ launched |-> TRUE, by |-> "_run_in_docker", rm |-> TRUE, name |-> TRUE,
      run_timeout |-> 0, network |-> "none", read_only |-> TRUE, workspace_mount |-> "ro",
      tmpfs_size_mb |-> 64, tmpfs_options |-> {"rw", "noexec", "nosuid", "nodev"},
      memory_mb |-> spec.memory_limit_mb, memory_swap_mb |-> Given(spec.memory_limit_mb),
      cpus |-> spec.cpus, pids_limit |-> 64,
      cap_drop |-> "ALL", no_new_privileges |-> TRUE ]

\* timeout=compiled_specs.get("overall_timeout_seconds", 10), utils.py line 207
run_submission_host_timeout(spec) == spec.overall_timeout_seconds

ModelTimeouts == { NoInt, 1, 3 }
ModelOveralls == { NoInt, 1, 4, 10 }

\* run_submission(compiled_specs, ...) on the spec compile_question built for
\* a question with the given timeout_seconds and overall_timeout_seconds
_run_in_docker ==
    /\ UNCHANGED <<qvars, svars, yvars, cvars>>
    /\ rpc = "idle"
    /\ \E model_timeout \in ModelTimeouts, model_overall \in ModelOveralls,
          tc \in [ CaseIds -> {Absent} \cup { r \in CaseRows : r.data = CaseA } ] :
         LET spec == compile_question_spec("script", tc, model_timeout, model_overall)
         IN  /\ tc[1].exists
             /\ request' = [ NoRequest EXCEPT !.endpoint = "run_submission",
                               !.model_timeout = model_timeout,
                               !.model_overall = model_overall ]
             /\ compiled_specs' = spec
             /\ docker_cmd' = run_in_docker_cmd(spec)
             /\ host_timeout' = run_submission_host_timeout(spec)
    /\ resolution' = Pending
    /\ limits' = NoLimits
    /\ rpc' = "returned"

\* the handler has returned; the next request starts from nothing
next_request ==
    /\ UNCHANGED <<qvars, svars, yvars, cvars>>
    /\ rpc = "returned"
    /\ rpc' = "idle"
    /\ request' = NoRequest
    /\ resolution' = Pending
    /\ limits' = NoLimits
    /\ compiled_specs' = EmptySpec
    /\ docker_cmd' = NoCmd
    /\ host_timeout' = 0

LaunchNext ==
    \/ resolve_runtime
    \/ limits_resolved
    \/ docker_run
    \/ _run_in_docker
    \/ next_request

(***************************************************************************)
(* Part D: spec_compiler.py.  compile_yaml_to_spec works on the mapping    *)
(* that yaml.safe_load_all returns.  A mapping is a record with a field    *)
(* keys, the set of keys that are present, next to the values of the keys  *)
(* the code reads.  A text is a sequence of one-character strings.  A      *)
(* function that returns or raises SpecError gives Ok(value) or            *)
(* SpecError(message, path).                                               *)
(***************************************************************************)
MaxLen == 3
MaxTests == 2

Chars == {"a", "\r", "\n"}

Texts(n) == UNION { [1..k -> Chars] : k \in 0..n }

Ok(v) == [ ok |-> TRUE, value |-> v ]

\* class SpecError, lines 10-15
SpecError(message, path) ==
    [ ok |-> FALSE, raised |-> "SpecError", message |-> message, path |-> path,
      missing |-> {}, unexpected |-> {} ]

\* an exception of the interpreter that the module does not raise itself
TypeError(message) ==
    [ ok |-> FALSE, raised |-> "TypeError", message |-> message, path |-> None,
      missing |-> {}, unexpected |-> {} ]

\* a YAML value that is a list and one that is a mapping, where the code
\* expects a string; neither can be hashed
ListValue == "[list]"

MappingValue == "{mapping}"

hashable(v) == v \notin {ListValue, MappingValue}

RECURSIVE replace_crlf(_)
\* s.replace("\r\n", "\n"), line 368
replace_crlf(s) ==
    IF s = <<>> THEN <<>>
    ELSE IF Len(s) >= 2 /\ s[1] = "\r" /\ s[2] = "\n"
         THEN <<"\n">> \o replace_crlf(SubSeq(s, 3, Len(s)))
         ELSE <<s[1]>> \o replace_crlf(Tail(s))

\* s.replace("\r", "\n"), line 368
replace_cr(s) == [ i \in 1..Len(s) |-> IF s[i] = "\r" THEN "\n" ELSE s[i] ]

\* a normaliser that rewrites the two-character line ending only
_normalize_newlines_crlf_only(s) == replace_crlf(s)

\* _normalize_newlines, lines 367-368
_normalize_newlines(s) == replace_cr(replace_crlf(s))

\* str.endswith("\n")
endswith_newline(s) == s # <<>> /\ s[Len(s)] = "\n"

\* _require_name, lines 383-386, with _as_identifier, lines 345-349: a test
\* name is a key of the mapping and matches [A-Za-z_][A-Za-z0-9_]*
IdentifierNames == {"t1", "add", "x", "a", "b", "Counter"}

_require_name(t, path) ==
    IF "name" \notin t.keys
    THEN SpecError("Missing required key 'name'", path)
    ELSE IF t.name \notin IdentifierNames
         THEN SpecError("must be a valid identifier", path)
         ELSE Ok(t.name)

\* _reject_unknown_keys, lines 389-392
_reject_unknown_keys(keys, allowed, path) ==
    IF keys \subseteq allowed THEN Ok(TRUE)
    ELSE SpecError("Unknown key", path)

\* one iteration of the loop of _normalize_standard_io_tests, lines 117-140
standard_io_test(t, path) ==
    LET name == _require_name(t, path)
        stdin == IF "stdin" \in t.keys THEN t.stdin ELSE <<>>
        stdin_s == _normalize_newlines(stdin)
        stdout_n == _normalize_newlines(t.stdout)
        stdout_s == IF endswith_newline(stdout_n) THEN stdout_n ELSE stdout_n \o <<"\n">>
        known == _reject_unknown_keys(t.keys, {"name", "stdin", "stdout"}, path)
    IN  IF ~name.ok THEN name
        ELSE IF "stdout" \notin t.keys THEN SpecError("Missing required key 'stdout'", path)
        ELSE IF ~known.ok THEN known
        ELSE Ok([ name |-> name.value, stdin |-> stdin_s, stdout |-> stdout_s ])

RECURSIVE standard_io_loop(_, _, _)
\* the loop of lines 116-140 from test i on, norm_ being the entries appended
standard_io_loop(tests, i, norm_) ==
    IF i > Len(tests) THEN Ok(norm_)
    ELSE LET entry == standard_io_test(tests[i], "tests")
         IN  IF ~entry.ok THEN entry
             ELSE standard_io_loop(tests, i + 1, Append(norm_, entry.value))

\* _require_tests_list, lines 371-375, and _require_non_empty, lines 378-380
_require_tests_list(raw_) ==
    IF "tests" \notin raw_.keys THEN SpecError("tests must be a list", "tests")
    ELSE Ok(raw_.tests)

_require_non_empty(norm_) ==
    IF norm_ = <<>> THEN SpecError("must contain at least one item", "tests")
    ELSE Ok(norm_)

\* _normalize_standard_io_tests, lines 113-142
_normalize_standard_io_tests(raw_) ==
    LET tests == _require_tests_list(raw_)
        entries == standard_io_loop(tests.value, 1, <<>>)
    IN  IF ~tests.ok THEN tests
        ELSE IF ~entries.ok THEN entries
        ELSE _require_non_empty(entries.value)

\* dict.get(key) of a key that holds a list: the list, or None when the key
\* is absent
NoneValue == [ is_list |-> FALSE, items |-> <<>> ]

get_list(keys, key, items) ==
    IF key \in keys THEN [ is_list |-> TRUE, items |-> items ] ELSE NoneValue

\* a or b of Python: a when it is truthy, else b; None and the empty list
\* are falsy
py_or(a, b) == IF a.is_list /\ a.items # <<>> THEN a ELSE b

\* set(seq)
set_of(seq) == { seq[i] : i \in 1..Len(seq) }

\* _as_type, lines 352-358
AllowedTypes == {"integer", "float", "string", "bool", "any", "void"}

\* the loop over the arguments of a signature, lines 157-164 and 237-244
norm_args_ok(items) ==
    \A i \in 1..Len(items) :
        items[i].name \in IdentifierNames /\ items[i].type \in AllowedTypes

\* _normalize_function_signature, lines 147-173
_normalize_function_signature(raw_) ==
    LET fn == raw_.function
        args == py_or(get_list(fn.keys, "arguments", fn.arguments),
                      get_list(fn.keys, "args", fn.args))
        known == _reject_unknown_keys(fn.keys, {"name", "arguments", "args", "returns"},
                                      "function")
    IN  IF "function" \notin raw_.keys THEN SpecError("Missing required mapping", "function")
        ELSE IF "name" \notin fn.keys \/ fn.name \notin IdentifierNames
             THEN SpecError("must be a valid identifier", "function.name")
        ELSE IF ~args.is_list
             THEN SpecError("function.arguments must be a list", "function.arguments")
        ELSE IF ~norm_args_ok(args.items)
             THEN SpecError("must be a valid identifier", "function.arguments")
        ELSE IF ~known.ok THEN known
        ELSE Ok([ name |-> fn.name, args |-> args.items, returns |-> "any" ])

\* the key check that accepts a mapping with additional keys
_check_exact_keys_missing_only(mapping, expected_keys, path) ==
    LET missing == expected_keys \ DOMAIN mapping
    IN  IF missing # {}
        THEN [ SpecError("missing", path) EXCEPT !.missing = missing ]
        ELSE Ok(TRUE)

\* _check_exact_keys, lines 395-405: the message lists the sorted missing
\* names and the sorted unexpected names
_check_exact_keys(mapping, expected_keys, path) ==
    LET actual == DOMAIN mapping
        missing == expected_keys \ actual
        extra == actual \ expected_keys
    IN  IF missing # {} \/ extra # {}
        THEN [ SpecError("missing; unexpected", path)
                 EXCEPT !.missing = missing, !.unexpected = extra ]
        ELSE Ok(TRUE)

\* the positional list [mapping[k] for k in arg_order], lines 194 and 318
pos_args(mapping, arg_order) == [ i \in 1..Len(arg_order) |-> mapping[arg_order[i]] ]

\* the test that raises only when both keys are present
one_of_violated_both_only(has_expected, has_exception) == has_expected /\ has_exception

\* has_expected == has_exception, lines 198 and 322
one_of_violated(has_expected, has_exception) == has_expected = has_exception

\* _normalize_exception, lines 416-435
_normalize_exception(val, path) ==
    IF val.kind = "str" THEN Ok([ type |-> val.type ])
    ELSE IF val.kind = "dict"
         THEN IF "type" \notin val.keys
              THEN SpecError("exception mapping must include 'type'", path)
              ELSE IF ~(val.keys \subseteq {"type", "message"})
                   THEN SpecError("Unknown key", path)
              ELSE IF "message" \in val.keys
                   THEN Ok([ type |-> val.type, message |-> val.message ])
                   ELSE Ok([ type |-> val.type ])
    ELSE SpecError("exception must be a string or mapping", path)

\* the entry of a test or a call step, lines 201-205 and 325-329: it carries
\* expected when that key is present and the normalized exception otherwise
outcome_entry(t, base, path) ==
    LET exc == _normalize_exception(t.exception, path)
    IN  IF "expected" \in t.keys
        THEN Ok([ k \in DOMAIN base \cup {"expected"} |->
                    IF k = "expected" THEN t.expected ELSE base[k] ])
        ELSE IF ~exc.ok THEN exc
        ELSE Ok([ k \in DOMAIN base \cup {"exception"} |->
                    IF k = "exception" THEN exc.value ELSE base[k] ])

\* one iteration of the loop of _normalize_function_tests, lines 181-208
function_test(t, arg_order, path) ==
    LET name == _require_name(t, path)
        exact == _check_exact_keys(t.args, set_of(arg_order), path)
        entry == outcome_entry(t, [ name |-> t.name, args |-> pos_args(t.args, arg_order) ],
                               path)
        known == _reject_unknown_keys(t.keys, {"name", "args", "expected", "exception"}, path)
    IN  IF ~name.ok THEN name
        ELSE IF "args" \notin t.keys
             THEN SpecError("args must be a mapping keyed by argument names", path)
        ELSE IF ~exact.ok THEN exact
        ELSE IF one_of_violated("expected" \in t.keys, "exception" \in t.keys)
             THEN SpecError("Provide exactly one of 'expected' or 'exception'", path)
        ELSE IF ~entry.ok THEN entry
        ELSE IF ~known.ok THEN known
        ELSE entry

RECURSIVE function_loop(_, _, _, _)
\* the loop of lines 181-208 from test i on
function_loop(tests, arg_order, i, norm_) ==
    IF i > Len(tests) THEN Ok(norm_)
    ELSE LET entry == function_test(tests[i], arg_order, "tests")
         IN  IF ~entry.ok THEN entry
             ELSE function_loop(tests, arg_order, i + 1, Append(norm_, entry.value))

\* _normalize_function_tests, lines 176-211
_normalize_function_tests(raw_, fn) ==
    LET tests == _require_tests_list(raw_)
        arg_order == [ i \in 1..Len(fn.args) |-> fn.args[i].name ]
        entries == function_loop(tests.value, arg_order, 1, <<>>)
    IN  IF ~tests.ok THEN tests
        ELSE IF ~entries.ok THEN entries
        ELSE _require_non_empty(entries.value)

\* the loop body that stores every method name as it is written
method_sig_unrenamed(m) ==
    [ name |-> m.name,
      args |-> py_or(py_or(get_list(m.keys, "arguments", m.arguments),
                           get_list(m.keys, "args", m.args)),
                     [ is_list |-> TRUE, items |-> <<>> ]).items,
      returns |-> "any" ]

\* one iteration of the loop over class.methods, lines 229-253: init is
\* stored as __init__, and a method without arguments has the empty list
method_sig(m) ==
    LET margs == py_or(py_or(get_list(m.keys, "arguments", m.arguments),
                             get_list(m.keys, "args", m.args)),
                       [ is_list |-> TRUE, items |-> <<>> ])
    IN  [ name |-> IF m.name = "init" THEN "__init__" ELSE m.name,
          args |-> margs.items, returns |-> "any" ]

\* _normalize_class_signature, lines 216-256
_normalize_class_signature(raw_) ==
    LET c == raw_.class
        bad_method(m) ==
            \/ "name" \notin m.keys
            \/ m.name \notin IdentifierNames \cup {"init", "__init__"}
            \/ ~norm_args_ok(method_sig(m).args)
            \/ ~(m.keys \subseteq {"name", "arguments", "args", "returns"})
        known == _reject_unknown_keys(c.keys, {"name", "methods"}, "class")
    IN  IF "class" \notin raw_.keys THEN SpecError("Missing required mapping", "class")
        ELSE IF "name" \notin c.keys \/ c.name \notin IdentifierNames
             THEN SpecError("must be a valid identifier", "class.name")
        ELSE IF "methods" \notin c.keys \/ c.methods = <<>>
             THEN SpecError("class.methods must be a non-empty list", "class.methods")
        ELSE IF \E i \in 1..Len(c.methods) : bad_method(c.methods[i])
             THEN SpecError("invalid method", "class.methods")
        ELSE IF ~known.ok THEN known
        ELSE Ok([ name |-> c.name,
                  methods |-> [ i \in 1..Len(c.methods) |-> method_sig(c.methods[i]) ] ])

\* _get_method_sig, lines 408-413: the first method of that name
_get_method_sig(klass, method_name) ==
    klass.methods[First({ i \in 1..Len(klass.methods) : klass.methods[i].name = method_name })]

\* the loop over setup, lines 279-289
setup_ok(setup_raw) ==
    \A j \in 1..Len(setup_raw) :
        /\ setup_raw[j].action = "create"
        /\ setup_raw[j].class \in IdentifierNames
        /\ setup_raw[j].var \in IdentifierNames

setup_entries(setup_raw) ==
    [ j \in 1..Len(setup_raw) |->
        [ op |-> "create", class |-> setup_raw[j].class, as |-> setup_raw[j].var ] ]

\* one iteration of the loop over the steps, lines 293-332
call_step(a, klass, created_vars, apath) ==
    LET declared_methods == { klass.methods[i].name : i \in 1..Len(klass.methods) }
        args_map == IF "args" \in a.keys THEN a.args ELSE <<>>
        sig == _get_method_sig(klass, a.method)
        expected_arg_names == [ i \in 1..Len(sig.args) |-> sig.args[i].name ]
        exact == _check_exact_keys(args_map, set_of(expected_arg_names), apath)
        step == outcome_entry(a, [ op |-> "call", on |-> a.var, method |-> a.method,
                                   args |-> pos_args(args_map, expected_arg_names) ], apath)
        known == _reject_unknown_keys(
                     a.keys, {"action", "var", "method", "args", "expected", "exception"}, apath)
    IN  IF "action" \notin a.keys \/ a.action # "call"
        THEN SpecError("Only 'call' actions are supported", apath)
        ELSE IF "var" \notin a.keys \/ a.var \notin IdentifierNames
             THEN SpecError("must be a valid identifier", apath)
        ELSE IF a.var \notin created_vars
             THEN SpecError("Unknown variable (not created in setup)", apath)
        ELSE IF "method" \notin a.keys \/ a.method \notin IdentifierNames \cup {"__init__", "init"}
             THEN SpecError("must be a valid identifier", apath)
        ELSE IF a.method \notin declared_methods
             THEN SpecError("Method not declared in class.methods", apath)
        ELSE IF ~exact.ok THEN exact
        ELSE IF one_of_violated("expected" \in a.keys, "exception" \in a.keys)
             THEN SpecError("Provide exactly one of 'expected' or 'exception'", apath)
        ELSE IF ~step.ok THEN step
        ELSE IF ~known.ok THEN known
        ELSE step

RECURSIVE steps_loop(_, _, _, _, _)
\* the loop of lines 293-332 from step k on
steps_loop(steps_raw, klass, created_vars, k, steps) ==
    IF k > Len(steps_raw) THEN Ok(steps)
    ELSE LET step == call_step(steps_raw[k], klass, created_vars, "tests.actions")
         IN  IF ~step.ok THEN step
             ELSE steps_loop(steps_raw, klass, created_vars, k + 1, Append(steps, step.value))

\* one iteration of the loop of _normalize_oop_tests, lines 264-335
oop_test(t, klass, path) ==
    LET name == _require_name(t, path)
        setup_raw == IF "setup" \in t.keys THEN t.setup ELSE <<>>
        steps_raw == py_or(get_list(t.keys, "actions", t.actions),
                           get_list(t.keys, "steps", t.steps))
        created_vars == { setup_raw[j].var : j \in 1..Len(setup_raw) }
        steps == steps_loop(steps_raw.items, klass, created_vars, 1, <<>>)
        known == _reject_unknown_keys(t.keys, {"name", "setup", "actions", "steps"}, path)
    IN  IF ~name.ok THEN name
        ELSE IF ~steps_raw.is_list
             THEN SpecError("actions/steps must be a list", "tests.actions")
        ELSE IF ~setup_ok(setup_raw)
             THEN SpecError("Only 'create' is supported in setup", "tests.setup")
        ELSE IF ~steps.ok THEN steps
        ELSE IF ~known.ok THEN known
        ELSE Ok([ name |-> name.value, setup |-> setup_entries(setup_raw),
                  steps |-> steps.value ])

RECURSIVE oop_loop(_, _, _, _)
\* the loop of lines 264-335 from test i on
oop_loop(tests, klass, i, norm_) ==
    IF i > Len(tests) THEN Ok(norm_)
    ELSE LET entry == oop_test(tests[i], klass, "tests")
         IN  IF ~entry.ok THEN entry
             ELSE oop_loop(tests, klass, i + 1, Append(norm_, entry.value))

\* _normalize_oop_tests, lines 259-338
_normalize_oop_tests(raw_, klass) ==
    LET tests == _require_tests_list(raw_)
        entries == oop_loop(tests.value, klass, 1, <<>>)
    IN  IF ~tests.ok THEN tests
        ELSE IF ~entries.ok THEN entries
        ELSE _require_non_empty(entries.value)

\* _require_type, lines 92-96, and _require_desc, lines 99-102; the test
\* `raw["type"] not in {...}` hashes the value
_require_type(raw_) ==
    IF "type" \notin raw_.keys THEN SpecError("Missing required key", "type")
    ELSE IF ~hashable(raw_.type) THEN TypeError("unhashable type")
    ELSE IF raw_.type \notin {"standardIo", "function", "oop"}
         THEN SpecError("Must be one of: standardIo, function, oop", "type")
    ELSE Ok(TRUE)

_require_desc(raw_) ==
    IF "description" \notin raw_.keys
    THEN SpecError("description must be a non-empty string", "description")
    ELSE Ok(TRUE)

\* _reject_unknown_top_level_keys, lines 105-108, with the set that
\* compile_yaml_to_spec passes for every type, lines 65-68
_reject_unknown_top_level_keys(raw_) ==
    IF raw_.keys \subseteq {"type", "description", "tests", "function", "class"}
    THEN Ok(TRUE)
    ELSE SpecError("Unknown top-level key", "top")

\* compile_yaml_to_spec after _parse_single_yaml, lines 31-69
compile_yaml_to_spec(raw_) ==
    LET rtype == _require_type(raw_)
        rdesc == _require_desc(raw_)
        io_tests == _normalize_standard_io_tests(raw_)
        fn == _normalize_function_signature(raw_)
        fn_tests == _normalize_function_tests(raw_, fn.value)
        klass == _normalize_class_signature(raw_)
        oop_tests == _normalize_oop_tests(raw_, klass.value)
        top == _reject_unknown_top_level_keys(raw_)
    IN  IF ~rtype.ok THEN rtype
        ELSE IF ~rdesc.ok THEN rdesc
        ELSE IF raw_.type = "standardIo"
             THEN IF ~io_tests.ok THEN io_tests
                  ELSE IF ~top.ok THEN top
                  ELSE Ok([ schema_version |-> 1, type |-> "standardIo",
                            tests |-> io_tests.value ])
        ELSE IF raw_.type = "function"
             THEN IF ~fn.ok THEN fn
                  ELSE IF ~fn_tests.ok THEN fn_tests
                  ELSE IF ~top.ok THEN top
                  ELSE Ok([ schema_version |-> 1, type |-> "function",
                            function |-> fn.value, tests |-> fn_tests.value ])
        ELSE IF ~klass.ok THEN klass
             ELSE IF ~oop_tests.ok THEN oop_tests
             ELSE IF ~top.ok THEN top
             ELSE Ok([ schema_version |-> 1, type |-> "oop",
                       class |-> klass.value, tests |-> oop_tests.value ])

(***************************************************************************)
(* The parsed mappings compile_yaml_to_spec is applied to.  Every mapping  *)
(* has a non-empty description; description is copied to the result        *)
(* unchanged and is left out of both.                                      *)
(***************************************************************************)
NoFunction == [ keys |-> {}, name |-> None, arguments |-> <<>>, args |-> <<>> ]

NoClass == [ keys |-> {}, name |-> None, methods |-> <<>> ]

NoException == [ kind |-> "str", keys |-> {}, type |-> None, message |-> None ]

Mapping(keys, type, tests, function, class) ==
    [ keys |-> {"type", "description"} \cup keys, type |-> type, tests |-> tests,
      function |-> function, class |-> class ]

\* standardIo tests: name and stdout, stdin or not
StdinChoices == { <<>>, <<"\r", "\n">>, <<"a", "\r">> }

IoTest(keys, stdin, stdout) ==
    [ keys |-> keys, name |-> "t1", stdin |-> stdin, stdout |-> stdout ]

IoTests(n) ==
    { IoTest({"name", "stdout"}, <<>>, so) : so \in Texts(n) }
    \cup { IoTest({"name", "stdin", "stdout"}, si, so) : si \in StdinChoices, so \in Texts(n) }

\* a signature argument, and the argument lists of the signatures
Arg(name) == [ name |-> name, type |-> "integer" ]

ArgLists == { <<>>, <<Arg("a")>>, <<Arg("a"), Arg("b")>>, <<Arg("b"), Arg("a")>> }

\* the mapping {"name": name, spelling: items} of a function or a method
Signature(name, spelling, items) ==
    [ keys |-> {"name"} \cup spelling, name |-> name,
      arguments |-> IF "arguments" \in spelling THEN items ELSE <<>>,
      args |-> IF "args" \in spelling THEN items ELSE <<>> ]

Spellings == { {}, {"arguments"}, {"args"} }

\* args mappings of a test or a step: every mapping from some of the names
\* to a value
ArgValues == {1, 2}

ArgMappings(names) == UNION { [K -> ArgValues] : K \in SUBSET names }

\* the values of expected and of exception: expected may be null, an
\* exception is a string, a mapping with type or a mapping without it
ExpectedValues == {None, "3"}

ExceptionValues ==
    { [ kind |-> "str", keys |-> {}, type |-> "ValueError", message |-> None ],
      [ kind |-> "dict", keys |-> {"type", "message"}, type |-> "ValueError",
        message |-> "bad" ],
      [ kind |-> "dict", keys |-> {"message"}, type |-> None, message |-> "bad" ] }

OutcomeKeys == SUBSET {"expected", "exception"}

FunctionTest(keys, args, expected, exception) ==
    [ keys |-> {"name"} \cup keys, name |-> "t1", args |-> args,
      expected |-> expected, exception |-> exception ]

FunctionTests ==
    { FunctionTest({"args"} \cup ok, m, e, x) :
        ok \in OutcomeKeys, m \in ArgMappings({"a", "b"}),
        e \in ExpectedValues, x \in ExceptionValues }

FunctionMappings ==
    { Mapping({"tests", "function"} \cup extra, "function", <<t>>,
              Signature("add", sp, items), NoClass) :
        extra \in SUBSET {"class"}, t \in FunctionTests, sp \in Spellings, items \in ArgLists }

\* a call step of an oop test
CallStep(keys, method, args, expected, exception) ==
    [ keys |-> {"action", "var", "method"} \cup keys, action |-> "call", var |-> "x",
      method |-> method, args |-> args, expected |-> expected, exception |-> exception ]

CallSteps ==
    { CallStep(ak \cup ok, "add", IF ak = {} THEN <<>> ELSE m, e, x) :
        ak \in SUBSET {"args"}, ok \in OutcomeKeys, m \in ArgMappings({"a", "b"}),
        e \in ExpectedValues, x \in ExceptionValues }

\* an oop test with one created variable and its steps under actions or steps
OopTest(spelling, steps) ==
    [ keys |-> {"name", "setup"} \cup spelling, name |-> "t1",
      setup |-> << [ action |-> "create", class |-> "Counter", var |-> "x" ] >>,
      actions |-> IF "actions" \in spelling THEN steps ELSE <<>>,
      steps |-> IF "steps" \in spelling THEN steps ELSE <<>> ]

StepSpellings == { {}, {"actions"}, {"steps"} }

OopMappings ==
    { Mapping({"tests", "class"} \cup extra, "oop", << OopTest(ssp, steps) >>, NoFunction,
              [ keys |-> {"name", "methods"}, name |-> "Counter",
                methods |-> << Signature("add", sp, items) >> ]) :
        extra \in SUBSET {"function"}, ssp \in StepSpellings,
        steps \in {<<>>} \cup { <<s>> : s \in CallSteps },
        sp \in Spellings, items \in ArgLists }

\* oop specs whose class declares a constructor next to add, under the
\* name init or __init__, with a test that calls one of the methods
MethodLists ==
    { << Signature(c, {}, <<>>) >> : c \in {"init", "__init__"} }
    \cup { << Signature(c, {}, <<>>), Signature("add", {"args"}, <<Arg("a")>>) >> :
              c \in {"init", "__init__"} }
    \cup { << Signature("add", {"args"}, <<Arg("a")>>), Signature("init", {}, <<>>) >> }

ConstructorMappings ==
    { Mapping({"tests", "class"}, "oop",
              << OopTest({"steps"},
                         << CallStep(IF method = "add" THEN {"args", "expected"}
                                     ELSE {"expected"},
                                     method,
                                     IF method = "add" THEN [ k \in {"a"} |-> 1 ] ELSE <<>>,
                                     e, NoException) >>) >>,
              NoFunction,
              [ keys |-> {"name", "methods"}, name |-> "Counter", methods |-> methods ]) :
        methods \in MethodLists, method \in {"add", "init", "__init__"},
        e \in ExpectedValues }

StandardIoMappings ==
    { Mapping({"tests"}, "standardIo", <<t>>, NoFunction, NoClass) : t \in IoTests(MaxLen) }
    \cup { Mapping({"tests"}, "standardIo", tests, NoFunction, NoClass) :
             tests \in UNION { [1..n -> IoTests(1)] : n \in 0..MaxTests } }
    \cup { Mapping({"tests"} \cup extra, "standardIo", <<IoTest({"name", "stdout"}, <<>>, <<"a">>)>>,
                   IF "function" \in extra THEN Signature("add", {"args"}, <<Arg("a")>>)
                   ELSE NoFunction, NoClass) :
             extra \in SUBSET {"function", "class", "hints"} }

\* mappings whose type is missing, is another word, or is not a string
OddTypeMappings ==
    LET m(type) == Mapping({"tests"}, type, <<IoTest({"name", "stdout"}, <<>>, <<"a">>)>>,
                           NoFunction, NoClass)
    IN  { m(type) : type \in {"sql", ListValue, MappingValue} }
        \cup { [ m(None) EXCEPT !.keys = @ \ {"type"} ] }

RawMappings ==
    StandardIoMappings \cup FunctionMappings \cup OopMappings \cup ConstructorMappings
    \cup OddTypeMappings

NotCalled ==
    [ ok |-> FALSE, raised |-> None, message |-> "not called", path |-> None,
      missing |-> {}, unexpected |-> {} ]

NoMapping == Mapping({}, None, <<>>, NoFunction, NoClass)

\* what yaml.safe_load_all makes of an uploaded text: it raises YAMLError, or
\* gives no document, several documents, or one document that is a mapping
\* or is not
Documents ==
    { [ parse |-> p, data |-> NoMapping ] :
        p \in {"yaml_error", "empty", "multiple", "not_mapping"} }
    \cup { [ parse |-> "mapping", data |-> r ] : r \in RawMappings }

\* _parse_single_yaml, lines 74-89
_parse_single_yaml(doc) ==
    IF doc.parse = "yaml_error" THEN SpecError("YAML parse error", None)
    ELSE IF doc.parse = "empty" THEN SpecError("YAML is empty", None)
    ELSE IF doc.parse = "multiple" THEN SpecError("Multiple YAML documents found", None)
    ELSE IF doc.parse = "not_mapping" THEN SpecError("Top-level YAML must be a mapping", None)
    ELSE Ok(doc.data)

\* compile_yaml_to_spec from the text on, lines 20-69
compile_yaml_text(doc) ==
    LET parsed == _parse_single_yaml(doc)
    IN  IF ~parsed.ok THEN parsed ELSE compile_yaml_to_spec(parsed.value)

InitCompiler ==
    /\ raw = NoMapping
    /\ compiled = NotCalled

\* forms.py clean_yaml_spec, lines 250-256: the uploaded text is compiled; a
\* SpecError becomes a ValidationError and the compiled spec is kept otherwise
clean_yaml_spec ==
    /\ UNCHANGED <<qvars, svars, lvars, cvars>>
    /\ compiled = NotCalled
    /\ \E doc \in Documents :
         /\ raw' = doc.data
         /\ compiled' = compile_yaml_text(doc)

\* the form is done with; the next upload starts from nothing
next_upload ==
    /\ UNCHANGED <<qvars, svars, lvars, cvars>>
    /\ compiled # NotCalled
    /\ raw' = NoMapping
    /\ compiled' = NotCalled

CompilerNext ==
    \/ clean_yaml_spec
    \/ next_upload

(***************************************************************************)
(* Part E: requests that run at the same time on one question.  Each       *)
(* request works on its own CodeQuestion instance, loaded from the row     *)
(* when the request starts; compile_question (compiler.py lines 95-150)    *)
(* and get_or_build_runner (generators.py lines 36-68) compute on that     *)
(* instance and write columns of the row with save(update_fields=...).     *)
(* Neither takes a lock nor reads the row again, so the steps of two       *)
(* requests interleave at every database access.  The question has the     *)
(* style script and one test case with id 0; its row holds the snapshot of *)
(* that case.  A compiled spec is named by the case ids it was built from. *)
(***************************************************************************)
MaxRequests == 2

Requests == 1..MaxRequests

NoCached == [ present |-> FALSE, version |-> 0, generator_version |-> None,
              content |-> [ language |-> None, spec |-> {} ] ]

StoredRow == [ version |-> 1, spec |-> {0}, cache |-> [ l \in Languages |-> NoCached ] ]

NotLoaded == [ version |-> 0, spec |-> {}, cache |-> [ l \in Languages |-> NoCached ] ]

Idle == [ pc |-> "idle", op |-> None, language |-> None, inst |-> NotLoaded ]

InitConcurrent ==
    /\ db_row = StoredRow
    /\ case_rows = {0}
    /\ registry = _registry
    /\ request_of = [ p \in Requests |-> Idle ]
    /\ assigned = { [ version |-> 1, spec |-> {0} ] }
    /\ changes = 0

\* generators.register, lines 14-22: a generator for another language is
\* registered
register ==
    /\ UNCHANGED <<qvars, svars, lvars, yvars>>
    /\ <<"java", "script">> \notin registry
    /\ registry' = registry \cup { <<"java", "script">> }
    /\ UNCHANGED <<db_row, case_rows, request_of, assigned, changes>>

\* the request loads the question: it saves a test case of the question or
\* asks for the runner of a language
load(p) ==
    /\ UNCHANGED <<qvars, svars, lvars, yvars>>
    /\ request_of[p].pc = "idle"
    /\ \E op \in {"case_save", "get_or_build_runner"}, language \in Languages :
         /\ op = "case_save" => language = "python"
         /\ request_of' = [ request_of EXCEPT ![p] =
                              [ pc |-> IF op = "case_save" THEN "case" ELSE "runner",
                                op |-> op,
                                language |-> IF op = "case_save" THEN None ELSE language,
                                inst |-> db_row ] ]
    /\ UNCHANGED <<db_row, case_rows, registry, assigned, changes>>

\* CodeTestCase.save(): the case row is written; compile_on_case_save
\* (signals.py lines 19-21) follows
case_written(p) ==
    /\ UNCHANGED <<qvars, svars, lvars, yvars>>
    /\ request_of[p].pc = "case"
    /\ case_rows' = case_rows \cup {p}
    /\ request_of' = [ request_of EXCEPT ![p].pc = "compile" ]
    /\ UNCHANGED <<db_row, registry, assigned, changes>>

\* generators.py lines 48-53 on the instance
cached_is_fresh(inst, language, generator_version) ==
    LET entry == inst.cache[language]
    IN  /\ entry.present
        /\ entry.version = inst.version
        /\ entry.generator_version = generator_version

\* generators.py lines 45-46 and 61-66: the cache of the instance with the
\* entry of the language replaced
cache_with(inst, language, generator_version) ==
    [ inst.cache EXCEPT ![language] =
        [ present |-> TRUE, version |-> inst.version,
          generator_version |-> generator_version,
          content |-> [ language |-> language, spec |-> inst.spec ] ] ]

\* get_or_build_runner, lines 36-68, after line 43 (the row has a snapshot
\* of the question's style): a fresh entry is returned, a language without
\* generator raises, otherwise the whole cache of the instance is written to
\* the compiled_runner_cache column and compile_on_question_save follows
runner_cached(p) ==
    /\ UNCHANGED <<qvars, svars, lvars, yvars>>
    /\ request_of[p].pc = "runner"
    /\ LET r == request_of[p]
           cache == cache_with(r.inst, r.language, "1")
       IN  IF cached_is_fresh(r.inst, r.language, "1") \/ <<r.language, "script">> \notin registry
           THEN /\ request_of' = [ request_of EXCEPT ![p].pc = "done" ]
                /\ UNCHANGED db_row
           ELSE /\ db_row' = [ db_row EXCEPT !.cache = cache ]
                /\ request_of' = [ request_of EXCEPT ![p].pc = "compile",
                                                     ![p].inst.cache = cache ]
    /\ UNCHANGED <<case_rows, registry, assigned, changes>>

\* compile_question, lines 103-148: the active cases are read, the version
\* of the instance is raised by one, and compiled_spec and compiled_version
\* of the instance are written to the row
compile_saved(p) ==
    /\ UNCHANGED <<qvars, svars, lvars, yvars>>
    /\ request_of[p].pc = "compile"
    /\ LET spec == case_rows
           version == request_of[p].inst.version + 1
       IN  /\ db_row' = [ db_row EXCEPT !.spec = spec, !.version = version ]
           /\ request_of' = [ request_of EXCEPT ![p].pc = "done",
                                                ![p].inst.spec = spec,
                                                ![p].inst.version = version ]
           /\ assigned' = assigned \cup { [ version |-> version, spec |-> spec ] }
           /\ changes' = IF spec # db_row.spec THEN changes + 1 ELSE changes
    /\ UNCHANGED <<case_rows, registry>>

ConcurrentNext ==
    \/ register
    \/ \E p \in Requests : load(p)
    \/ \E p \in Requests : case_written(p)
    \/ \E p \in Requests : runner_cached(p)
    \/ \E p \in Requests : compile_saved(p)

SandboxNext ==
    \/ mkdtemp
    \/ stage
    \/ launch
    \/ completed
    \/ TimeoutExpired
    \/ container_exits
    \/ parse
    \/ persist
    \/ cleanup
    \/ submission_result

QuestionNext ==
    \/ compile_question
    \/ compile_on_case_save
    \/ compile_on_case_delete
    \/ CodeQuestionForm_save
    \/ standardio_save
    \/ function_save
    \/ get_or_build_runner

vars == <<qvars, svars, lvars, yvars, cvars>>

Init == InitQuestion /\ InitSandbox /\ InitLaunch /\ InitCompiler
        /\ InitConcurrent

\* the authoring side and the runner cache
Next == QuestionNext

Spec == Init /\ [][Next]_vars

\* the submission pipeline
NextSandbox == SandboxNext

SpecSandbox == Init /\ [][NextSandbox]_vars

\* request resolution and container launch
NextLaunch == LaunchNext

SpecLaunch == Init /\ [][NextLaunch]_vars

\* the YAML spec compiler
NextCompiler == CompilerNext

SpecCompiler == Init /\ [][NextCompiler]_vars

\* requests at the same time
NextConcurrent == ConcurrentNext

SpecConcurrent == Init /\ [][NextConcurrent]_vars

(***************************************************************************)
(* Properties of the runner cache and the version counter                  *)
(***************************************************************************)
Returned == ret.op = "get_or_build_runner" /\ ~ret.raised

\* C1: an operation raises compiled_version only when the compiled_spec it
\* stores differs from the one stored before it.
C1_VersionBumpOnlyOnChange ==
    [][compiled_version' > compiled_version => compiled_spec' # compiled_spec]_vars

\* C2: get_or_build_runner returns the stored content only when the entry's
\* version is the question's current compiled_version and its
\* generator_version is the requested one; whenever the entry is missing, has
\* another version or generator_version, or has no content, the generator is
\* called and its output is returned.
C2_StaleNeverServed ==
    Returned =>
        /\ ret.from_cache =>
              /\ ret.entry.present
              /\ ret.entry.version = compiled_version
              /\ ret.entry.generator_version = ret.generator_version
              /\ ret.content = ret.entry.content
              /\ ~ret.gen_called
        /\ ( \/ ~ret.entry.present
             \/ ret.entry.version # ret.version
             \/ ret.entry.generator_version # ret.generator_version
             \/ ~ret.entry.has_content )
           => /\ ret.gen_called
              /\ ~ret.from_cache
              /\ compiled_runner_cache[ret.language].content = ret.content
              /\ compiled_runner_cache[ret.language].version = ret.version

C2_Witness ==
    /\ Returned
    /\ ret.from_cache
    /\ ret.entry.version = compiled_version

\* C3: the content get_or_build_runner returns is the output of the registered
\* generator on the question's current compiled_spec.
C3_CacheIsMemoization ==
    Returned => ret.content = python_script_unittest(compiled_spec)

(***************************************************************************)
(* Properties of the submission pipeline                                   *)
(***************************************************************************)
Returns == response.kind \in {"json", "redirect"}

C5_ContainerRemoved ==
    pc = "done" => container # "running"

\* The counts of a report, summed suite by suite.
RECURSIVE SumOver(_, _)
SumOver(suites, field) ==
    IF suites = <<>> THEN 0
    ELSE ( IF field = "errors" THEN suites[1].errors.val
           ELSE IF field = "failures" THEN suites[1].failures.val
           ELSE suites[1].tests.val )
         + SumOver(Tail(suites), field)

\* C6: the status of a parsed report is error when its suites' errors sum to
\* more than 0, else failed when their failures do, else passed; the payload
\* of a stored report follows the same order, failed possibly reclassified
\* to timeout.
C6_StatusFromCounts ==
    /\ (norm.status # None /\ report.exists) =>
        /\ SumOver(report.suites, "errors") > 0 => norm.status = "error"
        /\ ( SumOver(report.suites, "errors") <= 0
             /\ SumOver(report.suites, "failures") > 0 ) => norm.status = "failed"
        /\ ( SumOver(report.suites, "errors") <= 0
             /\ SumOver(report.suites, "failures") <= 0 ) => norm.status = "passed"
    /\ (payload.kind = "payload" /\ stored.junit_xml.exists /\ stored.junit_xml.wellformed) =>
        /\ SumOver(stored.junit_xml.suites, "errors") > 0 => payload.status = "error"
        /\ ( SumOver(stored.junit_xml.suites, "errors") <= 0
             /\ SumOver(stored.junit_xml.suites, "failures") > 0 )
               => payload.status \in {"failed", "timeout"}
        /\ ( SumOver(stored.junit_xml.suites, "errors") <= 0
             /\ SumOver(stored.junit_xml.suites, "failures") <= 0 )
               => payload.status = "passed"

C6_Witness ==
    /\ norm.status = "error"
    /\ norm.summary.failures > 0
    /\ Len(report.suites) = 2

Reclassified == norm.status # "timeout" /\ result.status = "timeout"

\* C7 as stated: the verdict becomes timeout exactly when the initial status
\* is failed and message directly followed by details contains "timeout".
C7_ReclassifyOnMessageDetails ==
    norm.status # None =>
        ( Reclassified <=>
            /\ norm.status = "failed"
            /\ norm.first_failure.present
            /\ Contains(lower(norm.first_failure.message \o norm.first_failure.details),
                        <<"t", "i", "m", "e", "o", "u", "t">>) )

\* C7 as amended: the verdict becomes timeout exactly when the initial status
\* is failed, a first failure was captured, and its message, one space and its
\* details, lower-cased, contain "timeout"; any other verdict is unchanged;
\* the payload of the stored submission carries the same status.
C7_ReclassifyOnJoinedText ==
    /\ norm.status # None =>
        /\ Reclassified <=>
              /\ norm.status = "failed"
              /\ norm.first_failure.present
              /\ Contains(lower(norm.first_failure.message \o <<" ">>
                                \o norm.first_failure.details),
                          <<"t", "i", "m", "e", "o", "u", "t">>)
        /\ ~Reclassified => result = norm
        /\ result.summary = norm.summary
        /\ result.first_failure = norm.first_failure
    /\ payload.kind = "payload" => payload.status = result.status

C7_Witness ==
    /\ norm.status = "failed"
    /\ result.status = "timeout"
    /\ norm.first_failure.details # <<>>
    /\ payload.kind = "payload"

\* C8: a run whose host timer fired with no report has status timeout; a run
\* whose container completed without a report file has status sandbox_error
\* with zero tests, failures and errors.
C8_MissingReportVerdicts ==
    (IsView /\ ~report.exists) =>
        /\ (proc.ended = "timeout" /\ pc \in {"persist", "finally", "done"})
             => result.status = "timeout"
        /\ (proc.ended = "timeout" /\ Returns) => response.status = "timeout"
        /\ (proc.ended = "timeout" /\ stored.exists) => stored.status = "timeout"
        /\ (proc.ended = "completed" /\ pc \in {"persist", "finally", "done"})
             => /\ result.status = "sandbox_error"
                /\ result.summary = [ tests |-> 0, failures |-> 0, errors |-> 0 ]
        /\ (proc.ended = "completed" /\ Returns)
             => /\ response.status = "sandbox_error"
                /\ response.summary = [ tests |-> 0, failures |-> 0, errors |-> 0 ]
        /\ (proc.ended = "completed" /\ stored.exists)
             => /\ stored.status = "sandbox_error"
                /\ stored.summary = [ tests |-> 0, failures |-> 0, errors |-> 0 ]

C8_Witness ==
    /\ pc = "done"
    /\ proc.ended = "timeout"
    /\ ~report.exists
    /\ Returns
    /\ stored.exists
    /\ stored.status = "timeout"

\* Submission.Status (sandbox/models.py lines 44-51); the spec writes
\* sandbox_error as sandbox-error
SubmissionStatus ==
    { "passed", "failed", "error", "timeout", "oom", "sandbox_error", "unknown" }

\* C9: every status returned to the caller or stored on a Submission is one
\* of passed, failed, error, timeout, oom, sandbox_error, unknown.
C9_StatusInClosedSet ==
    /\ Returns => response.status \in SubmissionStatus
    /\ stored.exists => stored.status \in SubmissionStatus
    /\ payload.kind = "payload" => payload.status \in SubmissionStatus
    /\ pc \in {"persist", "finally", "done"} /\ IsView /\ response.kind # "exception"
         => result.status \in SubmissionStatus

C9_Witness ==
    /\ pc = "done"
    /\ Returns
    /\ stored.exists
    /\ stored.status = "failed"
    /\ proc.returncode = 1

\* C10: a submission that reached the executor ends with a verdict for the
\* caller, never with an exception.
C10_AlwaysAVerdict ==
    (pc = "done" /\ IsView /\ proc.ended # "none") => Returns

(***************************************************************************)
(* Properties of request resolution and of the container launch            *)
(***************************************************************************)
\* C11: the runtime is the declared test with the requested runtime_id, else
\* the first declared test whose language matches the hint, else the single
\* declared test, else an error that carries the declared candidates and
\* chooses nothing.
C11_RuntimePrecedence ==
    (request.cq_id /\ request.qs # {} /\ resolution.error # "pending") =>
        LET match == { t \in request.qs : language_name(t) = request.lang_hint }
        IN  IF request.runtime_id \in request.qs
            THEN resolution.chosen = request.runtime_id
            ELSE IF match # {}
            THEN resolution.chosen \in match /\ \A t \in match : resolution.chosen <= t
            ELSE IF Cardinality(request.qs) = 1
            THEN resolution.chosen \in request.qs
            ELSE /\ resolution.chosen = 0
                 /\ resolution.carries_available
                 /\ resolution.available = request.qs

\* C12: each limit is the caller's value when the caller supplied one, else
\* the question's value when it has one, else the system default.
C12_LimitsPrecedence ==
    rpc \in {"docker", "returned"} /\ limits # NoLimits =>
        /\ limits.timeout_seconds =
              IF request.payload_timeout.supplied THEN request.payload_timeout.val
              ELSE IF request.cq_timeout.supplied THEN request.cq_timeout.val
              ELSE 5
        /\ limits.memory_limit_mb =
              IF request.payload_memory.supplied THEN request.payload_memory.val
              ELSE IF request.cq_memory.supplied THEN request.cq_memory.val
              ELSE 256

\* C13: the compiled overall_timeout_seconds is the question's explicit
\* overall_timeout_seconds when it has one, and otherwise twice the compiled
\* timeout_seconds, which is the question's timeout_seconds when it has one.
C13_OverallTimeout ==
    request.endpoint = "run_submission" =>
        /\ request.model_timeout # NoInt
             => compiled_specs.timeout_seconds = request.model_timeout
        /\ request.model_overall = NoInt
             => compiled_specs.overall_timeout_seconds = 2 * compiled_specs.timeout_seconds
        /\ request.model_overall # NoInt
             => compiled_specs.overall_timeout_seconds = request.model_overall

C13_Witness ==
    /\ request.endpoint = "run_submission"
    /\ request.model_timeout = 3
    /\ request.model_overall = 1
    /\ compiled_specs.overall_timeout_seconds = 1

\* C14: the host timeout of a launch is max(2, overall budget + grace) for a
\* grace >= 0, that is, at least 2 and at least the overall budget, which is
\* the compiled overall_timeout_seconds or, without one, twice the timeout.
C14_HostTimeoutCoversBudget ==
    docker_cmd.launched =>
        LET overall == IF docker_cmd.by = "view" THEN 2 * limits.timeout_seconds
                       ELSE compiled_specs.overall_timeout_seconds
        IN  host_timeout >= 2 /\ host_timeout >= overall

\* C15: every launch has no network, a read-only root, a tmpfs of at most
\* 64 MiB with noexec, nosuid and nodev, a read-only workspace, swap pinned
\* to the memory cap, at most one CPU, at most 64 processes, all
\* capabilities dropped, no-new-privileges, removal on exit, and a name.
C15_IsolationConstraints ==
    docker_cmd.launched =>
        /\ docker_cmd.network = "none"
        /\ docker_cmd.read_only
        /\ docker_cmd.tmpfs_size_mb <= 64
        /\ {"noexec", "nosuid", "nodev"} \subseteq docker_cmd.tmpfs_options
        /\ docker_cmd.workspace_mount = "ro"
        /\ docker_cmd.memory_swap_mb = Given(docker_cmd.memory_mb)
        /\ docker_cmd.cpus <= 1
        /\ docker_cmd.pids_limit <= 64
        /\ docker_cmd.cap_drop = "ALL"
        /\ docker_cmd.no_new_privileges
        /\ docker_cmd.rm
        /\ docker_cmd.name


(***************************************************************************)
(* Properties of the YAML spec compiler                                    *)
(***************************************************************************)
Called == compiled # NotCalled

\* the keys with k1 written as k2 and k2 written as k1
swap_keys(keys, k1, k2) ==
    (keys \ {k1, k2}) \cup (IF k1 \in keys THEN {k2} ELSE {})
                      \cup (IF k2 \in keys THEN {k1} ELSE {})

\* the signature with arguments spelled args and args spelled arguments
respell_signature(sig) ==
    [ sig EXCEPT !.keys = swap_keys(sig.keys, "arguments", "args"),
                 !.arguments = sig.args, !.args = sig.arguments ]

\* the oop test with actions spelled steps and steps spelled actions
respell_test(t) ==
    [ t EXCEPT !.keys = swap_keys(t.keys, "actions", "steps"),
               !.actions = t.steps, !.steps = t.actions ]

\* the mapping that differs from r in the spelling of those keys only
respell(r) ==
    [ r EXCEPT !.function = respell_signature(r.function),
               !.class = [ r.class EXCEPT !.methods =
                             [ i \in 1..Len(r.class.methods) |->
                                 respell_signature(r.class.methods[i]) ] ],
               !.tests = IF r.type = "oop"
                         THEN [ i \in 1..Len(r.tests) |-> respell_test(r.tests[i]) ]
                         ELSE r.tests ]

\* C16: compile_yaml_to_spec gives the same outcome, the same compiled spec
\* or an error in both cases, for two mappings that differ only in the
\* spelling arguments / args of a signature or actions / steps of an oop
\* test, whatever the value of the key, the empty list included.
C16_SpellingVariantsAgree ==
    Called => compile_yaml_to_spec(respell(raw)) = compiled

\* C17: in every standardIo spec that compiles, each test's stdout ends with
\* a newline, neither its stdin nor its stdout holds a carriage return, and a
\* test that has no stdin key gets the empty string as stdin.
C17_StandardIoNewlines ==
    (Called /\ raw.type = "standardIo" /\ compiled.ok) =>
        /\ Len(compiled.value.tests) = Len(raw.tests)
        /\ \A i \in 1..Len(compiled.value.tests) :
              LET entry == compiled.value.tests[i]
              IN  /\ endswith_newline(entry.stdout)
                  /\ "\r" \notin set_of(entry.stdout)
                  /\ "\r" \notin set_of(entry.stdin)
                  /\ "stdin" \notin raw.tests[i].keys => entry.stdin = <<>>

\* a test with a bare carriage return in stdout, no final newline and no
\* stdin has compiled
C17_Witness ==
    /\ Called /\ raw.type = "standardIo" /\ compiled.ok
    /\ raw.tests[1].stdout = <<"a", "\r", "a">>
    /\ "stdin" \notin raw.tests[1].keys
    /\ compiled.value.tests[1].stdout = <<"a", "\n", "a", "\n">>

\* the argument names a signature mapping declares, in its order
declared_names(sig) ==
    LET items == sig.arguments \o sig.args
    IN  [ i \in 1..Len(items) |-> items[i].name ]

\* the args array agrees with the mapping read in the declared order
in_declared_order(args, mapping, names) ==
    /\ Len(args) = Len(names)
    /\ \A i \in 1..Len(names) : args[i] = mapping[names[i]]

\* the outcome is the SpecError that names exactly the missing and the
\* unexpected argument names
names_the_arguments(outcome, mapping, names) ==
    /\ ~outcome.ok
    /\ outcome.missing = set_of(names) \ DOMAIN mapping
    /\ outcome.unexpected = DOMAIN mapping \ set_of(names)
    /\ outcome.missing \cup outcome.unexpected # {}

\* the function test that was compiled, and the call step that was compiled
FunctionCase ==
    /\ Called /\ raw.type = "function"
    /\ _normalize_function_signature(raw).ok
    /\ "args" \in raw.tests[1].keys

the_steps == raw.tests[1].actions \o raw.tests[1].steps

\* the first step calls the first declared method, by the name it is stored under
StepCase ==
    /\ Called /\ raw.type = "oop"
    /\ the_steps # <<>>
    /\ raw.class.methods # <<>>
    /\ the_steps[1].method = method_sig(raw.class.methods[1]).name

step_args == IF "args" \in the_steps[1].keys THEN the_steps[1].args ELSE <<>>

\* C18: for a function test and for an oop call step that compiles, the
\* positional args array has as many elements as the declared signature and
\* element i is the value the args mapping gives for the i-th declared name;
\* an args mapping with a missing or an extra name is rejected with a
\* SpecError that names the missing and the unexpected names.
C18_PositionalArgs ==
    /\ FunctionCase =>
          LET names == declared_names(raw.function)
              mapping == raw.tests[1].args
          IN  /\ compiled.ok =>
                    in_declared_order(compiled.value.tests[1].args, mapping, names)
              /\ DOMAIN mapping # set_of(names) =>
                    names_the_arguments(compiled, mapping, names)
    /\ StepCase =>
          LET names == declared_names(raw.class.methods[1])
          IN  /\ compiled.ok =>
                    in_declared_order(compiled.value.tests[1].steps[1].args, step_args, names)
              /\ DOMAIN step_args # set_of(names) =>
                    names_the_arguments(compiled, step_args, names)

\* a test that gives a and b for the signature (b, a) has compiled to the
\* values of b and a in that order
C18_Witness ==
    /\ FunctionCase /\ compiled.ok
    /\ declared_names(raw.function) = <<"b", "a">>
    /\ raw.tests[1].args["a"] = 1 /\ raw.tests[1].args["b"] = 2
    /\ compiled.value.tests[1].args = <<2, 1>>

\* the compiled entry carries exactly one of the two keys
one_outcome(entry) == ("expected" \in DOMAIN entry) # ("exception" \in DOMAIN entry)

\* the test or step has both keys or neither
both_or_neither(t) == ("expected" \in t.keys) = ("exception" \in t.keys)

\* C19: every function test and every oop call step of a compiled spec
\* carries exactly one of expected and exception; a test or step that has
\* both keys or neither makes compile_yaml_to_spec fail with a SpecError,
\* whatever the values under those keys.
C19_ExactlyOneOutcome ==
    /\ (Called /\ raw.type = "function") =>
          /\ compiled.ok => one_outcome(compiled.value.tests[1])
          /\ both_or_neither(raw.tests[1]) => ~compiled.ok
    /\ StepCase =>
          /\ compiled.ok => one_outcome(compiled.value.tests[1].steps[1])
          /\ both_or_neither(the_steps[1]) => ~compiled.ok

\* a test that has both keys, expected being null, and nothing else wrong
\* was rejected for that
C19_Witness ==
    /\ FunctionCase
    /\ {"expected", "exception"} \subseteq raw.tests[1].keys
    /\ raw.tests[1].expected = None
    /\ ~compiled.ok
    /\ compiled.message = "Provide exactly one of 'expected' or 'exception'"

\* the top-level keys that belong to another type than the mapping's own
foreign_keys(r) ==
    r.keys \cap ( IF r.type = "standardIo" THEN {"function", "class"}
                  ELSE IF r.type = "function" THEN {"class"}
                  ELSE IF r.type = "oop" THEN {"function"}
                  ELSE {} )

\* C20: compile_yaml_to_spec rejects every spec with a top-level key that
\* does not belong to its type: a standardIo spec with function or class, a
\* function spec with class and an oop spec with function all end in a
\* SpecError.
C20_ForeignShapeRejected ==
    (Called /\ foreign_keys(raw) # {}) => ~compiled.ok

\* C21: for every input text compile_yaml_to_spec returns a compiled spec or
\* raises SpecError; no other exception escapes, for text that does not
\* parse and for a type that is a list or a mapping as well.
C21_OnlySpecErrorEscapes ==
    Called => (compiled.ok \/ compiled.raised = "SpecError")

\* the name under which the compiled spec stores a declared method
stored_name(name) == IF name = "init" THEN "__init__" ELSE name

\* C22: compiling an oop spec stores a method declared as init under the
\* name __init__ and every other method under its own name, and the expected
\* value of a call step is carried into the compiled step unchanged.
C22_InitRenamedExpectedKept ==
    (Called /\ raw.type = "oop" /\ compiled.ok) =>
        /\ Len(compiled.value.class.methods) = Len(raw.class.methods)
        /\ \A i \in 1..Len(raw.class.methods) :
              compiled.value.class.methods[i].name = stored_name(raw.class.methods[i].name)
        /\ Len(compiled.value.tests[1].steps) = Len(the_steps)
        /\ \A k \in 1..Len(the_steps) :
              "expected" \in the_steps[k].keys =>
                  compiled.value.tests[1].steps[k].expected = the_steps[k].expected

\* a class that declares init and add has compiled, with a step that calls
\* add and expects "3"
C22_Witness ==
    /\ Called /\ raw.type = "oop" /\ compiled.ok
    /\ Len(raw.class.methods) = 2
    /\ raw.class.methods[1].name = "init"
    /\ compiled.value.class.methods[1].name = "__init__"
    /\ compiled.value.class.methods[2].name = "add"
    /\ the_steps[1].expected = "3"
    /\ compiled.value.tests[1].steps[1].expected = "3"

(***************************************************************************)
(* Properties of the stored snapshot                                       *)
(***************************************************************************)
\* C23: every compiled spec that a save path (the YAML form, the standardIo,
\* function and oop builder endpoints) leaves on the question has a
\* non-empty tests list; a spec with an empty tests list is rejected before
\* anything is stored.
C23_StoredTestsNonEmpty ==
    compiled_spec.type \in {"standardIo", "function", "oop"} => compiled_spec.tests # <<>>

(***************************************************************************)
(* Properties of requests that run at the same time                        *)
(***************************************************************************)
Quiescent == \A p \in Requests : request_of[p].pc = "done"

\* C24: the version bump is atomic: no version number is ever stored with
\* two different compiled specs, and no bump is lost, so that when all
\* requests are done the version has risen by at least the number of
\* compiles that stored another spec than the row held.
C24_AtomicVersionBump ==
    /\ \A a, b \in assigned : a.version = b.version => a.spec = b.spec
    /\ Quiescent => db_row.version - StoredRow.version >= changes

\* the request holds a stored entry for the language
holds_entry(p, l) == request_of[p].inst.cache[l].present

C26_DebugOnlyOnRequest ==
    /\ response.kind = "json" =>
          /\ ~response.tails
          /\ response.first_failure.details = <<>>
    /\ (payload.kind = "payload" /\ ~payload.debug) =>
          "details" \notin DOMAIN payload.first_failure


(***************************************************************************)
(* C27 as stated: every save of the question raises compiled_version by    *)
(* exactly one, counted from the stored compiled_version.                  *)
(***************************************************************************)
C27_OneBumpPerSave ==
    [][ret'.op = "save" => compiled_version' = compiled_version + 1]_vars

(***************************************************************************)
(* C27: a save of the question whose compile does not raise runs           *)
(* compile_question exactly once, so the stored compiled_version is one    *)
(* more than the compiled_version the saved instance carried and the chain *)
(* has ended; when compile_question raises, the chain does not raise the   *)
(* version at all.                                                         *)
(***************************************************************************)
C27_OneCompilePerSave ==
    ret.op = "save" =>
        IF ret.raised
        THEN compiled_version <= ret.version
        ELSE /\ compiled_version = ret.version + 1
             /\ post_save_chain(ret.version, {}, MaxChain)
                    = post_save_chain(ret.version, {}, MaxChain + 1)

C27_Witness ==
    /\ ret.op = "save"
    /\ ~ret.raised
    /\ compiled_version = ret.version + 1
    /\ compiled_spec = compile_question_spec(test_style, test_cases, timeout_seconds,
                                             overall_timeout_seconds)


(***************************************************************************)
(* C28: when get_or_build_runner has built and stored a runner, the next   *)
(* operation on the question being the same call again, that call returns  *)
(* the stored content, does not call the generator and leaves              *)
(* compiled_version as it was.                                             *)
(***************************************************************************)
Built == Returned /\ ret.gen_called

C28_SecondCallServed ==
    [][( /\ Built
         /\ ret'.op = "get_or_build_runner"
         /\ ret'.language = ret.language
         /\ ret'.generator_version = ret.generator_version )
       => /\ ret'.from_cache
          /\ ~ret'.gen_called
          /\ ret'.content = ret.content
          /\ compiled_version' = compiled_version]_vars


(***************************************************************************)
(* C29: after test-case saves and deletes and question saves, the stored   *)
(* compiled_spec.test_cases is the list of normalized payloads of the      *)
(* active test cases in (order, id) order, and each of its entries is the  *)
(* normalized payload of a case that exists and is active.                 *)
(***************************************************************************)
normalized_active(style, tc) ==
    compile_question_spec(style, tc, timeout_seconds, overall_timeout_seconds).test_cases

from_active_case(entry) ==
    \E i \in ActiveIds(test_cases) :
        /\ ~normalize_case_raises(test_style, test_cases[i].data)
        /\ entry = normalize_case(test_style, test_cases[i].data)

C29_SnapshotMatchesCases ==
    ret.op # "get_or_build_runner" =>
        /\ ~compile_question_raises(test_style, test_cases)
              => compiled_spec.test_cases = normalized_active(test_style, test_cases)
        /\ \A k \in 1..Len(compiled_spec.test_cases) :
              from_active_case(compiled_spec.test_cases[k])


(***************************************************************************)
(* C30: in every result run_submission returns, total = passed + failed,   *)
(* and ok implies that at least one test ran, none failed, all passed and  *)
(* the run did not time out.                                               *)
(***************************************************************************)
C30_OkMeansTestsPassed ==
    response.kind = "dict" =>
        LET res == response.dict IN
        /\ res.total = res.passed + res.failed
        /\ res.ok => /\ res.total >= 1
                     /\ res.failed = 0
                     /\ res.passed = res.total
                     /\ ~res.submission_timeout

====
